---- MODULE Spec2Model ----
(***************************************************************************)
(* A model of the account-pool gateway of gemini-business2api:             *)
(*   - core/message.py: conversation keys (get_conversation_keys)          *)
(*   - core/browser_failure_tracker.py: the global browser-failure counter *)
(*   - core/login_service.py, core/register_service.py: the login and      *)
(*     register tasks and their per-item workers                           *)
(*   - core/gemini_automation.py: login_and_extract's error handling       *)
(*   - core/google_api.py: the upstream calls (token retry, binary         *)
(*     download, context-file upload, session creation)                    *)
(*   - core/login_service.py: check_and_refresh, start_polling,            *)
(*     stop_polling and the health monitor (_auto_heal_account_pool)       *)
(*   - core/browser_failure_tracker.py: the construction of the singleton  *)
(*   - core/gemini_format.py: create_error_response and the token counts   *)
(*     of GeminiResponseConverter.create_stream_chunk                      *)
(*   - the writers of the account store, and the account's failure         *)
(*     cooldown as spec.md describes core/account.py                       *)
(* Python strings are TLA+ strings; a Python list is a sequence.           *)
(***************************************************************************)
EXTENDS Integers, Sequences, FiniteSets, TLC

VARIABLES
    \* core/message.py: one call of get_conversation_keys
    messages,            \* the history handed to get_conversation_keys
    client_identifier,   \* its client_identifier argument
    keys,                \* what the call returned (NoKeys before it returns)
    keysPc,              \* "ready" before the call, "returned" after it
    \* core/browser_failure_tracker.py: the singleton and its callers
    _failure_count,      \* BrowserFailureTracker._failure_count
    _counter_lock,       \* the thread holding _counter_lock, NoThread when free
    tpc,                 \* each calling thread's position
    tLocal,              \* each thread's locals: the loaded count, current_count
    tResult,             \* what each thread's last record_failure call did
    tOrdinal,            \* which increment since the last reset that call was
    increments,          \* record_failure increments since the last reset
    callsLeft,           \* record_failure calls the model still allows
    resetsLeft,          \* reset calls the model still allows
    \* core/login_service.py, core/register_service.py: the task services
    alive,               \* the process (its event loop) is running
    loginTasks,          \* LoginService._tasks, task id = position
    login_current,       \* LoginService._current_task_id, NoTask for None
    registerTasks,       \* RegisterService._tasks, task id = position
    register_current,    \* RegisterService._current_task_id, NoTask for None
    lastStart,           \* what the last start_register call did
    \* core/google_api.py: one call of one of its functions
    fn,                  \* the function called, "none" when there is no call
    method,              \* make_request_with_jwt_retry's method argument
    max_retries,         \* download_image_with_jwt's max_retries argument
    base64_content,      \* upload_context_file's base64_content argument
    apiPc,               \* where the call stands (the await it is suspended in)
    jwt_count,           \* tokens acquired with get_jwt during the call
    requests,            \* the upstream requests sent, each with its reply
    retried,             \* the call is in its second request (the retry)
    resp,                \* the local resp / r: the last response received
    inner,               \* how the awaited make_request_with_jwt_retry ended
    attempt,             \* the loop variable of download_image_with_jwt
    sleeps,              \* the seconds of every asyncio.sleep of the call
    failures,            \* the kind of failure of every failed attempt
    outcome,             \* what the call returned or raised
    \* core/login_service.py: start_polling and the health monitor
    _is_polling,         \* LoginService._is_polling
    pollPc,              \* where the start_polling coroutine stands
    healPc,              \* where heal_task (_auto_heal_account_pool) stands
    healCancel,          \* heal_task.cancel() was called and is not yet delivered
    healSeen,            \* the locals of the monitor's last check and what it did
    healRound,           \* the parity of the number of checks of the monitor
    stopped,             \* stop_polling was called since the last start_polling
    store,               \* the account store load_accounts_from_source reads
    refreshSeen,         \* the locals of the last check_and_refresh
    \* core/browser_failure_tracker.py: threads constructing the singleton
    _instance,           \* BrowserFailureTracker._instance and its attributes
    _lock,               \* the thread holding the class lock, NoThread when free
    newPc,               \* each thread's position in __new__
    obtained,            \* the attributes each thread found on the instance it got
    \* core/gemini_format.py: one call of create_error_response
    errorArgs,           \* its arguments status_code, message, details
    errorResp,           \* the dict it returned
    \* core/gemini_automation.py: one worker's calls of login_and_extract
    autoPc,              \* where the call stands
    autoScript,          \* what the browser and the sign-in flow do in this call
    autoPage,            \* the local page is set (the browser was created)
    autoError,           \* error_msg, the text of the exception caught
    autoReports,         \* record_browser_failure calls made by this call
    autoResult,          \* what the call returns or raises
    \* core/gemini_format.py: one GeminiResponseConverter
    prompt_token_count,      \* GeminiResponseConverter.prompt_token_count
    candidates_token_count,  \* GeminiResponseConverter.candidates_token_count
    thoughts_token_count,    \* GeminiResponseConverter.thoughts_token_count
    chunk,                   \* what the last create_stream_chunk returned
    emitted,                 \* the text parts of every chunk returned so far
    usages,                  \* the usageMetadata of every chunk returned so far
    \* core/login_service.py, core/register_service.py: the writers of the store
    writerPc,            \* where each writer of the account store stands
    writerAccounts,      \* each writer's local list (accounts, accounts_data)
    \* core/login_service.py: every call of start_polling
    pollCalls,           \* each call's position, its heal_task and its cancel()
    \* core/account.py (as spec.md describes it): one account's cache entry
    consecutive_failures,    \* CredentialCacheEntry.consecutive_failures
    cooldown_until,          \* CredentialCacheEntry.cooldown_until, nullable
    clock,                   \* the time
    inUse,                   \* a call on the selected account is in flight
    lastSelect               \* the time and the result of the last select()

keysVars == <<messages, client_identifier, keys, keysPc>>

trackerVars == <<_failure_count, _counter_lock, tpc, tLocal, tResult, tOrdinal,
                 increments, callsLeft, resetsLeft>>

taskVars == <<alive, loginTasks, login_current, registerTasks,
              register_current, lastStart>>

apiVars == <<fn, method, max_retries, base64_content, apiPc, jwt_count, requests,
             retried, resp, inner, attempt, sleeps, failures, outcome>>

pollVars == <<_is_polling, pollPc, healPc, healCancel, healSeen, healRound,
              stopped, store, refreshSeen>>

ctorVars == <<_instance, _lock, newPc, obtained>>

fmtVars == <<errorArgs, errorResp>>

autoVars == <<autoPc, autoScript, autoPage, autoError, autoReports, autoResult>>

chunkVars == <<prompt_token_count, candidates_token_count, thoughts_token_count,
               chunk, emitted, usages>>

writerVars == <<writerPc, writerAccounts>>

cooldownVars == <<consecutive_failures, cooldown_until, clock, inUse, lastSelect>>

moreVars == <<autoVars, chunkVars, writerVars, pollCalls, cooldownVars>>

extVars == <<pollVars, ctorVars, fmtVars, moreVars>>

vars == <<keysVars, trackerVars, taskVars, apiVars, extVars>>

(***************************************************************************)
(* Bounds of the model.                                                    *)
(***************************************************************************)
\* longest generated message history
MaxLen == 4
\* threads calling the failure tracker concurrently
NumThreads == 2
\* record_failure calls in one run of the tracker
MaxCalls == 7
\* reset calls in one run of the tracker
MaxResets == 1
\* Spec: login and register tasks created in one run of the two services
MaxTasks == 2
\* Spec: items of all tasks together (len(account_ids) of the login tasks,
\* count of the register tasks)
MaxItems == 3
\* SpecLogin: login tasks created in one run of the login service
MaxLoginTasks == 3
\* SpecLogin: account ids of all login tasks together
MaxLoginItems == 2
\* SpecApi: the largest max_retries handed to download_image_with_jwt
MaxRetries == 3
\* SpecSingleton: threads constructing BrowserFailureTracker at the same time
NumConstructors == 3
\* SpecRefresh: the latest hour the clock shows at a check
MaxClock == 1
\* SpecRefresh: login tasks created in one run
MaxRefreshTasks == 1
\* SpecLive: login and register tasks created in one run
MaxLiveTasks == 2
\* SpecLive: items of all tasks together
MaxLiveItems == 2
\* SpecPolling: register tasks started in one run
MaxPollTasks == 2
\* SpecPolling: the largest register task whose items are processed in a run;
\* a larger one stays running for the rest of the run
MaxPollItems == 1

(***************************************************************************)
(* Strings.                                                                *)
(***************************************************************************)
CharAt(s, i) == SubSeq(s, i, i)

\* str.lower() on the letters the model's texts use
LowerChar(c) ==
    CASE c = "A" -> "a"
      [] c = "B" -> "b"
      [] c = "H" -> "h"
      [] c = "I" -> "i"
      [] OTHER -> c

RECURSIVE Lower(_)
Lower(s) == IF Len(s) = 0 THEN "" ELSE LowerChar(CharAt(s, 1)) \o Lower(Tail(s))

IsSpace(c) == c \in {" ", "\t", "\n"}

RECURSIVE LStrip(_)
LStrip(s) == IF Len(s) > 0 /\ IsSpace(CharAt(s, 1)) THEN LStrip(Tail(s)) ELSE s

RECURSIVE RStrip(_)
RStrip(s) ==
    IF Len(s) > 0 /\ IsSpace(CharAt(s, Len(s)))
    THEN RStrip(SubSeq(s, 1, Len(s) - 1))
    ELSE s

\* str.strip()
Strip(s) == RStrip(LStrip(s))

\* the sequences over S of length at most n
RECURSIVE SeqsUpTo(_, _)
SeqsUpTo(S, n) ==
    IF n = 0 THEN {<<>>}
    ELSE LET shorter == SeqsUpTo(S, n - 1)
         IN shorter \cup {Append(s, x) : s \in {t \in shorter : Len(t) = n - 1}, x \in S}

\* sep.join(parts)
RECURSIVE Join(_, _)
Join(parts, sep) ==
    IF Len(parts) = 0 THEN ""
    ELSE IF Len(parts) = 1 THEN parts[1]
    ELSE parts[1] \o sep \o Join(Tail(parts), sep)

(***************************************************************************)
(* core/message.py                                                         *)
(* A message is [role, content]; content is [kind |-> "str", value] for a  *)
(* plain string and [kind |-> "list", parts] for a multimodal list whose   *)
(* parts are [type, text].                                                 *)
(***************************************************************************)
StrContent(s) == [kind |-> "str", value |-> s]
ListContent(ps) == [kind |-> "list", parts |-> ps]
Msg(r, c) == [role |-> r, content |-> c]

RECURSIVE JoinTextParts(_)
JoinTextParts(ps) ==
    IF Len(ps) = 0 THEN ""
    ELSE (IF ps[1].type = "text" THEN ps[1].text ELSE "") \o JoinTextParts(Tail(ps))

\* extract_text_from_content: the text parts of a multimodal list, joined
extract_text_from_content(content) ==
    IF content.kind = "str" THEN content.value ELSE JoinTextParts(content.parts)

\* a variant of _normalize_message_text that keeps the letter case
_normalize_keeps_case(content) ==
    LET text == IF content.kind = "list"
                THEN extract_text_from_content(content)
                ELSE content.value
    IN Strip(text)

_normalize_message_text(content) ==
    LET text == IF content.kind = "list"
                THEN extract_text_from_content(content)
                ELSE content.value
    IN Lower(Strip(text))

\* hashlib.md5(...).hexdigest(): the digest is kept as its preimage under a
\* tag, i.e. md5 is taken to be collision-free on the strings of the model
Md5(s) == [digest |-> TRUE, text |-> s]

_hash_key(parts, client) ==
    LET prefix == Join(parts, "|")
    IN Md5(IF client # "" THEN client \o "|" \o prefix ELSE prefix)

\* the index of the n-th user message of msgs, 0 when there are fewer
RECURSIVE NthUserIndex(_, _, _, _)
NthUserIndex(msgs, n, i, seen) ==
    IF i > Len(msgs) THEN 0
    ELSE IF msgs[i].role = "user"
         THEN IF seen + 1 = n THEN i ELSE NthUserIndex(msgs, n, i + 1, seen + 1)
         ELSE NthUserIndex(msgs, n, i + 1, seen)

\* a variant that cuts before the n-th user message (messages[:i])
_truncate_messages_before_nth_user(msgs, user_index_1based) ==
    IF user_index_1based <= 0 THEN <<>>
    ELSE LET i == NthUserIndex(msgs, user_index_1based, 1, 0)
         IN IF i > 0 THEN SubSeq(msgs, 1, i - 1) ELSE msgs

_truncate_messages_to_nth_user(msgs, user_index_1based) ==
    IF user_index_1based <= 0 THEN <<>>
    ELSE LET i == NthUserIndex(msgs, user_index_1based, 1, 0)
         IN IF i > 0 THEN SubSeq(msgs, 1, i) ELSE msgs

UserCount(msgs) == Cardinality({i \in 1..Len(msgs) : msgs[i].role = "user"})

\* the "role:text" parts of a list of messages
KeyParts(msgs) ==
    [i \in 1..Len(msgs) |->
        msgs[i].role \o ":" \o _normalize_message_text(msgs[i].content)]

\* a variant of the sentinel that ignores the client
EmptyKeyShared(client) == [digest |-> FALSE, text |-> "empty"]

\* the sentinel key of an empty history
EmptyKey(client) ==
    [digest |-> FALSE, text |-> IF client # "" THEN client \o ":empty" ELSE "empty"]

\* a variant without the user_count == 2 branch: reuse from the second turn
get_conversation_keys_reuse_at_two(msgs, client) ==
    IF Len(msgs) = 0
    THEN [lookup_key |-> EmptyKey(client), store_key |-> EmptyKey(client),
          force_new |-> TRUE]
    ELSE
      LET user_count == UserCount(msgs)
          store_msgs == _truncate_messages_to_nth_user(
                            msgs, IF user_count > 0 THEN user_count ELSE 0)
          store_key  == _hash_key(KeyParts(store_msgs), client)
          lookup_msgs == _truncate_messages_to_nth_user(msgs, user_count - 1)
          lookup_key == _hash_key(KeyParts(lookup_msgs), client)
      IN IF user_count < 2
         THEN [lookup_key |-> store_key, store_key |-> store_key, force_new |-> TRUE]
         ELSE [lookup_key |-> lookup_key, store_key |-> store_key, force_new |-> FALSE]

\* a variant whose lookup prefix ends one user turn too early (user_count - 2)
get_conversation_keys_lookup_early(msgs, client) ==
    IF Len(msgs) = 0
    THEN [lookup_key |-> EmptyKey(client), store_key |-> EmptyKey(client),
          force_new |-> TRUE]
    ELSE
      LET user_count == UserCount(msgs)
          store_msgs == _truncate_messages_to_nth_user(
                            msgs, IF user_count > 0 THEN user_count ELSE 0)
          store_key  == _hash_key(KeyParts(store_msgs), client)
          lookup_msgs == _truncate_messages_to_nth_user(msgs, user_count - 2)
          lookup_key == _hash_key(KeyParts(lookup_msgs), client)
      IN IF user_count < 2
         THEN [lookup_key |-> store_key, store_key |-> store_key, force_new |-> TRUE]
         ELSE IF user_count = 2
         THEN [lookup_key |-> store_key, store_key |-> store_key, force_new |-> TRUE]
         ELSE [lookup_key |-> lookup_key, store_key |-> store_key, force_new |-> FALSE]

get_conversation_keys(msgs, client) ==
    IF Len(msgs) = 0
    THEN [lookup_key |-> EmptyKey(client), store_key |-> EmptyKey(client),
          force_new |-> TRUE]
    ELSE
      LET user_count == UserCount(msgs)
          store_msgs == _truncate_messages_to_nth_user(
                            msgs, IF user_count > 0 THEN user_count ELSE 0)
          store_key  == _hash_key(KeyParts(store_msgs), client)
          lookup_msgs == _truncate_messages_to_nth_user(msgs, user_count - 1)
          lookup_key == _hash_key(KeyParts(lookup_msgs), client)
      IN IF user_count < 2
         THEN [lookup_key |-> store_key, store_key |-> store_key, force_new |-> TRUE]
         ELSE IF user_count = 2
         THEN [lookup_key |-> store_key, store_key |-> store_key, force_new |-> TRUE]
         ELSE [lookup_key |-> lookup_key, store_key |-> store_key, force_new |-> FALSE]

NoKeys == [lookup_key |-> EmptyKey(""), store_key |-> EmptyKey(""), force_new |-> FALSE]

\* no call of get_conversation_keys is modelled
IdleKeys ==
    /\ messages = <<>>
    /\ client_identifier = ""
    /\ keys = NoKeys
    /\ keysPc = "ready"

(***************************************************************************)
(* core/browser_failure_tracker.py                                         *)
(* record_failure, reset and get_count run in the threads of the worker    *)
(* pool; each takes _counter_lock. "self._failure_count += 1" is a load    *)
(* and a store.                                                            *)
(***************************************************************************)
\* BrowserFailureTracker.__new__: _max_failures = 5
_max_failures == 5

Threads == 1..NumThreads
NoThread == 0

NoResult == [kind |-> "none", value |-> 0]
Returned(n) == [kind |-> "returned", value |-> n]
SystemExit(n) == [kind |-> "SystemExit", value |-> n]

\* no thread is inside the tracker
ThreadsIdle ==
    /\ _counter_lock = NoThread
    /\ tpc = [t \in Threads |-> "idle"]
    /\ tLocal = [t \in Threads |-> [loaded |-> 0, current_count |-> 0]]
    /\ tResult = [t \in Threads |-> NoResult]
    /\ tOrdinal = [t \in Threads |-> 0]
    /\ increments = 0
    /\ callsLeft = MaxCalls
    /\ resetsLeft = MaxResets

\* the state after BrowserFailureTracker() at import time
InitTracker ==
    /\ _failure_count = 0
    /\ ThreadsIdle

\* a variant of the lock that never blocks (no mutual exclusion)
LockNeverBlocks(t) == TRUE

\* "with self._counter_lock": thread t may enter when the lock is free
CanAcquire(t) == _counter_lock = NoThread

\* current_count > self._max_failures
ExceedsMax(current_count) == current_count > _max_failures

\* a thread calls record_failure()
RecordFailureCall(t) ==
    /\ tpc[t] = "idle"
    /\ callsLeft > 0
    /\ callsLeft' = callsLeft - 1
    /\ tpc' = [tpc EXCEPT ![t] = "rf_lock"]
    /\ tResult' = [tResult EXCEPT ![t] = NoResult]
    /\ UNCHANGED <<_failure_count, _counter_lock, tLocal, tOrdinal, increments,
                   resetsLeft, keysVars, taskVars, apiVars, extVars>>

\* with self._counter_lock:
RecordFailureAcquire(t) ==
    /\ tpc[t] = "rf_lock"
    /\ CanAcquire(t)
    /\ _counter_lock' = t
    /\ tpc' = [tpc EXCEPT ![t] = "rf_load"]
    /\ UNCHANGED <<_failure_count, tLocal, tResult, tOrdinal, increments, callsLeft,
                   resetsLeft, keysVars, taskVars, apiVars, extVars>>

\* self._failure_count += 1: the load
RecordFailureLoad(t) ==
    /\ tpc[t] = "rf_load"
    /\ tLocal' = [tLocal EXCEPT ![t].loaded = _failure_count]
    /\ tpc' = [tpc EXCEPT ![t] = "rf_store"]
    /\ UNCHANGED <<_failure_count, _counter_lock, tResult, tOrdinal, increments,
                   callsLeft, resetsLeft, keysVars, taskVars, apiVars, extVars>>

\* self._failure_count += 1: the store
RecordFailureStore(t) ==
    /\ tpc[t] = "rf_store"
    /\ _failure_count' = tLocal[t].loaded + 1
    /\ increments' = increments + 1
    /\ tOrdinal' = [tOrdinal EXCEPT ![t] = increments + 1]
    /\ tpc' = [tpc EXCEPT ![t] = "rf_read"]
    /\ UNCHANGED <<_counter_lock, tLocal, tResult, callsLeft, resetsLeft, keysVars, taskVars, apiVars, extVars>>

\* current_count = self._failure_count
RecordFailureRead(t) ==
    /\ tpc[t] = "rf_read"
    /\ tLocal' = [tLocal EXCEPT ![t].current_count = _failure_count]
    /\ tpc' = [tpc EXCEPT ![t] = "rf_check"]
    /\ UNCHANGED <<_failure_count, _counter_lock, tResult, tOrdinal, increments,
                   callsLeft, resetsLeft, keysVars, taskVars, apiVars, extVars>>

\* if current_count > self._max_failures: raise SystemExit; return current_count
\* (leaving the with block releases the lock either way)
RecordFailureCheck(t) ==
    /\ tpc[t] = "rf_check"
    /\ tResult' = [tResult EXCEPT ![t] =
                     IF ExceedsMax(tLocal[t].current_count)
                     THEN SystemExit(tLocal[t].current_count)
                     ELSE Returned(tLocal[t].current_count)]
    /\ _counter_lock' = IF _counter_lock = t THEN NoThread ELSE _counter_lock
    /\ tpc' = [tpc EXCEPT ![t] = "idle"]
    /\ UNCHANGED <<_failure_count, tLocal, tOrdinal, increments, callsLeft,
                   resetsLeft, keysVars, taskVars, apiVars, extVars>>

\* a thread calls reset()
ResetCall(t) ==
    /\ tpc[t] = "idle"
    /\ resetsLeft > 0
    /\ resetsLeft' = resetsLeft - 1
    /\ tpc' = [tpc EXCEPT ![t] = "rs_lock"]
    /\ UNCHANGED <<_failure_count, _counter_lock, tLocal, tResult, tOrdinal,
                   increments, callsLeft, keysVars, taskVars, apiVars, extVars>>

\* reset: with self._counter_lock:
ResetAcquire(t) ==
    /\ tpc[t] = "rs_lock"
    /\ CanAcquire(t)
    /\ _counter_lock' = t
    /\ tpc' = [tpc EXCEPT ![t] = "rs_store"]
    /\ UNCHANGED <<_failure_count, tLocal, tResult, tOrdinal, increments, callsLeft,
                   resetsLeft, keysVars, taskVars, apiVars, extVars>>

\* reset: self._failure_count = 0, and the lock is released
ResetStore(t) ==
    /\ tpc[t] = "rs_store"
    /\ _failure_count' = 0
    /\ increments' = 0
    /\ _counter_lock' = IF _counter_lock = t THEN NoThread ELSE _counter_lock
    /\ tpc' = [tpc EXCEPT ![t] = "idle"]
    /\ UNCHANGED <<tLocal, tResult, tOrdinal, callsLeft, resetsLeft, keysVars, taskVars, apiVars, extVars>>

\* get_count(): the value read under _counter_lock, so a call returns while
\* no other thread is inside record_failure or reset
get_count == _failure_count

NextTracker ==
    \E t \in Threads :
        \/ RecordFailureCall(t)
        \/ RecordFailureAcquire(t)
        \/ RecordFailureLoad(t)
        \/ RecordFailureStore(t)
        \/ RecordFailureRead(t)
        \/ RecordFailureCheck(t)
        \/ ResetCall(t)
        \/ ResetAcquire(t)
        \/ ResetStore(t)

(***************************************************************************)
(* core/login_service.py and core/register_service.py                      *)
(* The event loop runs one coroutine step at a time: a step runs from one  *)
(* await that suspends to the next. start_login and start_register hold    *)
(* the service's asyncio lock from their first line to their return        *)
(* without suspending, so each is one step and the lock is free between    *)
(* steps. A per-item worker (_refresh_one, _register_one) runs in a thread *)
(* of the executor; the task body awaits its future.                       *)
(***************************************************************************)
NoTask == 0

\* BaseTask.status of a freshly constructed task (core/base_task_service.py)
BaseTaskInitialStatus == "pending"

TerminalStatuses == {"success", "failed"}

NoFuture == [state |-> "none", signal |-> "return", success |-> FALSE]
PendingFuture == [state |-> "pending", signal |-> "return", success |-> FALSE]
DoneFuture(r) == [state |-> "done", signal |-> r.signal, success |-> r.success]

NoStart == [kind |-> "none", outcome |-> "none"]

\* the state after the services are constructed
IdleTasks ==
    /\ alive = TRUE
    /\ loginTasks = <<>>
    /\ login_current = NoTask
    /\ registerTasks = <<>>
    /\ register_current = NoTask
    /\ lastStart = NoStart

NonTerminal(tasks) == {k \in 1..Len(tasks) : tasks[k].status \notin TerminalStatuses}
Running(tasks) == {k \in 1..Len(tasks) : tasks[k].status = "running"}

\* what one per-item worker meets:
\*   "reject"        it returns a failure before the automation runs (account
\*                   not found or disabled, credentials missing, mailbox
\*                   registration failed)
\*   "raise"         it raises an Exception before the automation runs
\*   "config"        the automation flow returns a config
\*   "failed"        the automation flow returns {success: False}
\*   "error"         the flow raises an Exception that is no browser failure
\*   "browser_error" the flow raises a browser launch/connection Exception
AutomationScripts == {"config", "failed", "error", "browser_error"}
ItemScripts == {"reject", "raise"} \cup AutomationScripts

\* a variant of the except clause that catches every BaseException
ExceptBaseException(signal) == signal \in {"Exception", "SystemExit"}

\* a variant of the except clause that catches nothing
ExceptNothing(signal) == FALSE

\* "except Exception": SystemExit is a BaseException, not an Exception
ExceptException(signal) == signal = "Exception"

\* record_failure as one step (it runs under _counter_lock)
record_failure(count) ==
    [count |-> count + 1,
     signal |-> IF ExceedsMax(count + 1) THEN "SystemExit" ELSE "return"]

\* GeminiAutomation.login_and_extract: the flow raises inside the try; the
\* handler of "except Exception" records a browser failure, which may raise
\* SystemExit out of the handler (the finally block only cleans up)
login_and_extract(script, count) ==
    IF script = "config"
    THEN [signal |-> "return", success |-> TRUE, count |-> count]
    ELSE IF script = "failed"
    THEN [signal |-> "return", success |-> FALSE, count |-> count]
    ELSE IF script = "browser_error"
    THEN LET r == record_failure(count)
         IN [signal |-> r.signal, success |-> FALSE, count |-> r.count]
    ELSE [signal |-> "return", success |-> FALSE, count |-> count]

\* LoginService._refresh_one and RegisterService._register_one: the checks
\* before the automation, the automation call in try / except Exception, and
\* the result they return
ItemWorker(script, count) ==
    IF script = "reject"
    THEN [signal |-> "return", success |-> FALSE, count |-> count]
    ELSE IF script = "raise"
    THEN [signal |-> "Exception", success |-> FALSE, count |-> count]
    ELSE LET r == login_and_extract(script, count)
         IN IF r.signal # "return"
            THEN IF ExceptException(r.signal)
                 THEN [signal |-> "return", success |-> FALSE, count |-> r.count]
                 ELSE r
            ELSE r

_refresh_one(script, count) == ItemWorker(script, count)

_register_one(script, count) == ItemWorker(script, count)

\* a variant of the bookkeeping that does not count a failed item
RecordItemDropsFailure(task, result) ==
    [task EXCEPT !.progress = @ + 1,
                 !.results = Append(@, result),
                 !.success_count = IF result.success THEN @ + 1 ELSE @]

\* a variant of the bookkeeping that puts the newest result first
RecordItemNewestFirst(task, result) ==
    [task EXCEPT !.progress = @ + 1,
                 !.results = <<result>> \o @,
                 !.success_count = IF result.success THEN @ + 1 ELSE @,
                 !.fail_count = IF result.success THEN @ ELSE @ + 1]

\* the task after the body took the item's result: progress, results, counts
RecordItem(task, result) ==
    [task EXCEPT !.progress = @ + 1,
                 !.results = Append(@, result),
                 !.success_count = IF result.success THEN @ + 1 ELSE @,
                 !.fail_count = IF result.success THEN @ ELSE @ + 1]

\* a variant of the terminal status that ignores fail_count
FinalStatusAlwaysSuccess(task) == "success"

\* SUCCESS if task.fail_count == 0 else FAILED
FinalStatus(task) == IF task.fail_count = 0 THEN "success" ELSE "failed"

(***************************************************************************)
(* LoginService                                                            *)
(***************************************************************************)
LoginTask(ids) ==
    [status |-> BaseTaskInitialStatus, account_ids |-> ids, progress |-> 0,
     success_count |-> 0, fail_count |-> 0, results |-> <<>>, log |-> <<>>,
     pc |-> "scheduled", future |-> NoFuture, tripped |-> 0]

\* self._append_log(task, level, message) of the login service: log holds the
\* lines the service hands to _append_log, in call order; account_id is the
\* account the message names, 0 for a line about the whole task
LogLine(level, text, account_id) ==
    [level |-> level, text |-> text, account_id |-> account_id]

_append_log(task, level, text, account_id) ==
    [task EXCEPT !.log = Append(@, LogLine(level, text, account_id))]

\* the loop body of _run_login_async after the await: the result is recorded
\* and mirrored into the log
LoginRecordItem(task, result) ==
    LET t == RecordItem(task, result)
    IN IF result.success
       THEN _append_log(t, "info", "refresh success", result.email)
       ELSE _append_log(t, "error", "refresh failed", result.email)

\* start_login under self._lock: [raised, tasks, current]
start_login(tasks, current, ids) ==
    IF current # NoTask /\ tasks[current].status = "running"
    THEN [raised |-> "login task already running", tasks |-> tasks, current |-> current]
    ELSE [raised |-> "",
          tasks |-> Append(tasks, _append_log(LoginTask(ids), "info",
                                              "login task created", 0)),
          current |-> Len(tasks) + 1]

\* the items of all tasks created so far
RECURSIVE LoginItems(_)
LoginItems(tasks) ==
    IF Len(tasks) = 0 THEN 0 ELSE Len(tasks[1].account_ids) + LoginItems(Tail(tasks))

\* the account id lists a caller submits: the first n account ids, n <= most
AccountIdLists(most) == {[i \in 1..n |-> i] : n \in 0..most}

\* a call of start_login(ids), by an operator or by check_and_refresh
StartLogin(ids) ==
        LET r == start_login(loginTasks, login_current, ids)
        IN /\ alive
           /\ loginTasks' = r.tasks
           /\ login_current' = r.current
           /\ UNCHANGED <<alive, registerTasks, register_current, lastStart,
                          keysVars, trackerVars, apiVars, extVars>>

\* a variant of the end of _run_login_async that leaves the status as it is
LoginFinishKeepsStatus(task) ==
    _append_log([task EXCEPT !.pc = "done"], "info", "login task finished", 0)

\* _run_login_async after the loop: the terminal status, and the marker cleared
LoginFinish(task) ==
    _append_log([task EXCEPT !.status = FinalStatus(task), !.pc = "done"],
                "info", "login task finished", 0)

\* _run_login_async from its first line to the first await: the task is
\* RUNNING, and the first item goes to the executor (or the loop is empty)
LoginBodyStart(k) ==
    /\ alive
    /\ loginTasks[k].pc = "scheduled"
    /\ LET t == _append_log([loginTasks[k] EXCEPT !.status = "running"],
                             "info", "login task started", 0)
       IN IF Len(t.account_ids) = 0
          THEN /\ loginTasks' = [loginTasks EXCEPT ![k] = LoginFinish(t)]
               /\ login_current' = NoTask
          ELSE /\ loginTasks' = [loginTasks EXCEPT ![k] =
                                   [t EXCEPT !.pc = "awaiting", !.future = PendingFuture]]
               /\ UNCHANGED login_current
    /\ UNCHANGED <<alive, registerTasks, register_current, lastStart,
                   keysVars, trackerVars, apiVars, extVars>>

\* the executor thread runs _refresh_one for the item the body awaits
LoginWorker(k) ==
    \E script \in ItemScripts :
        LET t == loginTasks[k]
            r == _refresh_one(script, _failure_count)
            trip == script \in AutomationScripts
                      /\ login_and_extract(script, _failure_count).signal = "SystemExit"
        IN /\ t.pc = "awaiting"
           /\ t.future.state = "pending"
           /\ _failure_count' = r.count
           /\ loginTasks' = [loginTasks EXCEPT ![k] =
                               [t EXCEPT !.future = DoneFuture(r),
                                         !.tripped = IF trip THEN t.progress + 1 ELSE @]]
           /\ UNCHANGED <<alive, login_current, registerTasks,
                          register_current, lastStart, keysVars, apiVars, _counter_lock, tpc,
                          tLocal, tResult, tOrdinal, increments, callsLeft, resetsLeft, extVars>>

\* _run_login_async from the return of "await run_in_executor" to the next
\* await or the end: the result is recorded, then the next item is dispatched or
\* the task finishes; a signal that "except Exception" does not catch leaves
\* the coroutine and ends the event loop
LoginBodyResume(k) ==
    LET t == loginTasks[k]
        f == t.future
        account_id == t.account_ids[t.progress + 1]
    IN /\ alive
       /\ t.pc = "awaiting"
       /\ f.state = "done"
       /\ IF f.signal # "return" /\ ~ExceptException(f.signal)
          THEN /\ loginTasks' = [loginTasks EXCEPT ![k] =
                                   [t EXCEPT !.pc = "raised", !.future = NoFuture]]
               /\ alive' = FALSE
               /\ UNCHANGED login_current
          ELSE LET result == [success |-> (f.signal = "return" /\ f.success),
                              email |-> account_id]
                   t2 == [LoginRecordItem(t, result) EXCEPT !.future = NoFuture]
               IN /\ UNCHANGED alive
                  /\ IF t2.progress = Len(t2.account_ids)
                     THEN /\ loginTasks' = [loginTasks EXCEPT ![k] = LoginFinish(t2)]
                          /\ login_current' = NoTask
                     ELSE /\ loginTasks' = [loginTasks EXCEPT ![k] =
                                   [t2 EXCEPT !.pc = "awaiting", !.future = PendingFuture]]
                          /\ UNCHANGED login_current
       /\ UNCHANGED <<registerTasks, register_current, lastStart,
                      keysVars, trackerVars, apiVars, extVars>>

(***************************************************************************)
(* RegisterService                                                         *)
(***************************************************************************)
RegisterTask(count) ==
    [status |-> BaseTaskInitialStatus, count |-> count, progress |-> 0,
     success_count |-> 0, fail_count |-> 0, results |-> <<>>,
     pc |-> "scheduled", future |-> NoFuture, tripped |-> 0, raising |-> FALSE]

Max(a, b) == IF a >= b THEN a ELSE b

\* a variant of start_register written like start_login: the new task keeps
\* its initial status and only a RUNNING current task blocks the call
start_register_like_login(tasks, current, env, count, default_count) ==
    IF env
    THEN [raised |-> "ACCOUNTS_CONFIG is set; register is disabled",
          tasks |-> tasks, current |-> current]
    ELSE IF current # NoTask /\ tasks[current].status = "running"
    THEN [raised |-> "register task already running", tasks |-> tasks,
          current |-> current]
    ELSE LET register_count == Max(1, IF count # 0 THEN count ELSE default_count)
         IN [raised |-> "",
             tasks |-> Append(tasks, RegisterTask(register_count)),
             current |-> Len(tasks) + 1]

\* start_register under self._lock: [raised, tasks, current]; env is
\* os.environ.get("ACCOUNTS_CONFIG"), count = 0 stands for None or 0, and
\* default_count is config.basic.register_default_count
start_register(tasks, current, env, count, default_count) ==
    IF env
    THEN [raised |-> "ACCOUNTS_CONFIG is set; register is disabled",
          tasks |-> tasks, current |-> current]
    ELSE IF current # NoTask /\ tasks[current].status \in {"pending", "running"}
    THEN [raised |-> "register task already running", tasks |-> tasks,
          current |-> current]
    ELSE LET register_count == Max(1, IF count # 0 THEN count ELSE default_count)
         IN [raised |-> "",
             tasks |-> Append(tasks, [RegisterTask(register_count)
                                        EXCEPT !.status = "running"]),
             current |-> Len(tasks) + 1]

RECURSIVE RegisterItems(_)
RegisterItems(tasks) ==
    IF Len(tasks) = 0 THEN 0 ELSE tasks[1].count + RegisterItems(Tail(tasks))

\* the inputs of start_register: ACCOUNTS_CONFIG set or not, a count (0 for
\* none given) and the configured default count, at most `most` items
StartRegisterInputs(most) ==
    {[env |-> TRUE, count |-> 0, default_count |-> 0]}
        \cup {[env |-> FALSE, count |-> c, default_count |-> 0] : c \in 0..most}
        \cup {[env |-> FALSE, count |-> 0, default_count |-> most]}

\* a call of start_register(count), by an operator or by the health monitor
StartRegister(env, count, default_count) ==
        LET r == start_register(registerTasks, register_current, env, count,
                                default_count)
        IN /\ alive
           /\ registerTasks' = r.tasks
           /\ register_current' = r.current
           /\ lastStart' = [kind |-> "register",
                            outcome |-> IF r.raised = "" THEN "created" ELSE r.raised]
           /\ UNCHANGED <<alive, loginTasks, login_current, keysVars, trackerVars, apiVars, extVars>>

\* _run_register_async from its first line to the first await (count >= 1)
RegisterBodyStart(k) ==
    /\ alive
    /\ registerTasks[k].pc = "scheduled"
    /\ registerTasks' = [registerTasks EXCEPT ![k] =
                           [@ EXCEPT !.pc = "awaiting", !.future = PendingFuture]]
    /\ UNCHANGED <<alive, loginTasks, login_current, register_current, lastStart,
                   keysVars, trackerVars, apiVars, extVars>>

\* the executor thread runs _register_one for the item the body awaits
RegisterWorker(k) ==
    \E script \in ItemScripts :
        LET t == registerTasks[k]
            r == _register_one(script, _failure_count)
            trip == script \in AutomationScripts
                      /\ login_and_extract(script, _failure_count).signal = "SystemExit"
        IN /\ t.pc = "awaiting"
           /\ t.future.state = "pending"
           /\ _failure_count' = r.count
           /\ registerTasks' = [registerTasks EXCEPT ![k] =
                               [t EXCEPT !.future = DoneFuture(r),
                                         !.tripped = IF trip THEN t.progress + 1 ELSE @]]
           /\ UNCHANGED <<alive, loginTasks, login_current, register_current,
                          lastStart, keysVars, apiVars, _counter_lock, tpc, tLocal, tResult,
                          tOrdinal, increments, callsLeft, resetsLeft, extVars>>

\* the finally block of _run_register_async up to "async with self._lock"
RegisterFinally(task, raising) ==
    [task EXCEPT !.status = FinalStatus(task), !.pc = "finalizing",
                 !.raising = raising, !.future = NoFuture]

\* _run_register_async from the return of "await run_in_executor" to the next
\* await: the result is recorded and the next item dispatched; after the last
\* item, or on a signal that "except Exception" does not catch, the finally block
\* sets the terminal status and waits for the lock
RegisterBodyResume(k) ==
    LET t == registerTasks[k]
        f == t.future
    IN /\ alive
       /\ t.pc = "awaiting"
       /\ f.state = "done"
       /\ IF f.signal # "return" /\ ~ExceptException(f.signal)
          THEN registerTasks' = [registerTasks EXCEPT ![k] = RegisterFinally(t, TRUE)]
          ELSE LET ok == f.signal = "return" /\ f.success
                   result == [success |-> ok,
                              email |-> IF ok THEN "registered" ELSE ""]
                   t2 == RecordItem(t, result)
               IN IF t2.progress = t2.count
                  THEN registerTasks' =
                           [registerTasks EXCEPT ![k] = RegisterFinally(t2, FALSE)]
                  ELSE registerTasks' =
                           [registerTasks EXCEPT ![k] =
                               [t2 EXCEPT !.pc = "awaiting", !.future = PendingFuture]]
       /\ UNCHANGED <<alive, loginTasks, login_current, register_current, lastStart,
                      keysVars, trackerVars, apiVars, extVars>>

\* the finally block from "async with self._lock": the marker is cleared if it
\* still names this task; a pending SystemExit then leaves the coroutine and
\* ends the event loop
RegisterFinalize(k) ==
    LET t == registerTasks[k]
    IN /\ alive
       /\ t.pc = "finalizing"
       /\ register_current' = IF register_current = k THEN NoTask ELSE register_current
       /\ registerTasks' = [registerTasks EXCEPT ![k] =
                              [t EXCEPT !.pc = IF t.raising THEN "raised" ELSE "done"]]
       /\ alive' = ~t.raising
       /\ UNCHANGED <<loginTasks, login_current, lastStart, keysVars, trackerVars, apiVars, extVars>>

(***************************************************************************)
(* core/google_api.py: data.                                               *)
(***************************************************************************)
\* download_image_with_jwt's default max_retries
DefaultMaxRetries == 3

\* str.upper() on the letters of the method names
UpperChar(c) ==
    CASE c = "g" -> "G"
      [] c = "e" -> "E"
      [] c = "t" -> "T"
      [] c = "p" -> "P"
      [] c = "o" -> "O"
      [] c = "s" -> "S"
      [] OTHER -> c

RECURSIVE Upper(_)
Upper(s) == IF Len(s) = 0 THEN "" ELSE UpperChar(CharAt(s, 1)) \o Upper(Tail(s))

\* sub in s
Contains(s, sub) ==
    \E i \in 1..(Len(s) - Len(sub) + 1) : SubSeq(s, i, i + Len(sub) - 1) = sub

\* 2 ** n
RECURSIVE Pow2(_)
Pow2(n) == IF n = 0 THEN 1 ELSE 2 * Pow2(n - 1)

\* base64.b64encode(s.encode("utf-8")).decode("utf-8") on the contents of the
\* model
B64Encode(s) ==
    CASE s = "" -> ""
      [] s = "QQ==" -> "UVE9PQ=="
      [] OTHER -> "b64:" \o s

\* the body of an upstream response as json.loads reads it: json is FALSE when
\* the text is no JSON object; message is error.message; details holds the
\* reason of every item of error.details
\* (details_is_list tells whether error.details is a list)
NoPayload ==
    [json |-> FALSE, code |-> 0, message |-> "", details_is_list |-> TRUE,
     details |-> <<>>]

Payload(code, message, details_is_list, details) ==
    [json |-> TRUE, code |-> code, message |-> message,
     details_is_list |-> details_is_list, details |-> details]

\* the reply to an upstream request: a response, or what ended the wait for it
NoReply == [kind |-> "pending", status |-> 0, payload |-> NoPayload, content |-> 0]

Response(status, payload, content) ==
    [kind |-> "response", status |-> status, payload |-> payload, content |-> content]

TimedOut == [kind |-> "timeout", status |-> 0, payload |-> NoPayload, content |-> 0]

TransportError == [kind |-> "error", status |-> 0, payload |-> NoPayload, content |-> 0]

\* an upstream request: the token it carries (the number of the get_jwt call
\* that gave it), the file contents it uploads, and the download attempt it
\* belongs to
Request(jwt, content, att) ==
    [jwt |-> jwt, content |-> content, attempt |-> att, reply |-> NoReply]

\* what a call returned or raised
NoOutcome ==
    [kind |-> "none", exc |-> "", status |-> 0, type |-> "", has_retriable |-> FALSE,
     retriable |-> FALSE, resp |-> NoReply]

\* return of a response (make_request_with_jwt_retry), of its content
\* (download_image_with_jwt) or of a value read from it (session name, file id)
Return(r) ==
    [kind |-> "return", exc |-> "", status |-> 0, type |-> "", has_retriable |-> FALSE,
     retriable |-> FALSE, resp |-> r]

\* raise of an exception that is no HTTPException
Raise(exc) ==
    [kind |-> "raise", exc |-> exc, status |-> 0, type |-> "", has_retriable |-> FALSE,
     retriable |-> FALSE, resp |-> NoReply]

\* raise HTTPException(status, <text>)
HTTPException(status, type) ==
    [kind |-> "raise", exc |-> "HTTPException", status |-> status, type |-> type,
     has_retriable |-> FALSE, retriable |-> FALSE, resp |-> NoReply]

\* raise HTTPException(status, {"error": {"type": type, "retriable": retriable}})
HTTPExceptionDetail(status, type, retriable) ==
    [kind |-> "raise", exc |-> "HTTPException", status |-> status, type |-> type,
     has_retriable |-> TRUE, retriable |-> retriable, resp |-> NoReply]

NoInner == [kind |-> "none", exc |-> ""]

\* no call of google_api.py is in progress
IdleApi ==
    /\ fn = "none"
    /\ method = ""
    /\ max_retries = 0
    /\ base64_content = ""
    /\ apiPc = "idle"
    /\ jwt_count = 0
    /\ requests = <<>>
    /\ retried = FALSE
    /\ resp = NoReply
    /\ inner = NoInner
    /\ attempt = 0
    /\ sleeps = <<>>
    /\ failures = <<>>
    /\ outcome = NoOutcome

\* the last request sent got this reply
Replied(reqs, reply) == [reqs EXCEPT ![Len(reqs)].reply = reply]

(***************************************************************************)
(* core/google_api.py: make_request_with_jwt_retry.                        *)
(***************************************************************************)
\* the statuses the upstream answers with
Statuses == {200, 400, 401, 404, 429, 500}

\* the responses to a request that is number n of the call; only the upload
\* reads the body of a failed response
PlainResponses(n) == {Response(st, NoPayload, n) : st \in Statuses}

\* a variant of the retry test that retries every failed response
AnyFailure(r) == r.status # 200

\* resp.status_code == 401
JwtExpired(r) == r.status = 401

\* method.upper() is "GET" or "POST"
SupportedMethod(m) == Upper(m) \in {"GET", "POST"}

\* "await account_mgr.get_jwt" returns and the request goes out (first request
\* or retry), or get_jwt raises, or the method is none the function supports
MrGetJwt ==
    /\ apiPc = "mr_get_jwt"
    /\ \E ok \in BOOLEAN :
          IF ~ok
          THEN /\ inner' = [kind |-> "raise", exc |-> "get_jwt error"]
               /\ apiPc' = "mr_end"
               /\ UNCHANGED <<jwt_count, requests>>
          ELSE /\ jwt_count' = jwt_count + 1
               /\ IF SupportedMethod(method)
                  THEN /\ requests' = Append(requests, Request(jwt_count', "", attempt))
                       /\ apiPc' = "mr_await"
                       /\ UNCHANGED inner
                  ELSE /\ inner' = [kind |-> "raise", exc |-> "ValueError"]
                       /\ apiPc' = "mr_end"
                       /\ UNCHANGED requests
    /\ UNCHANGED <<fn, method, max_retries, base64_content, retried, resp, attempt,
                   sleeps, failures, outcome, keysVars, trackerVars, taskVars, extVars>>

\* the response arrives: a 401 on the first request leads to one more get_jwt
\* and request, every other response is returned
MrResponse ==
    /\ apiPc = "mr_await"
    /\ \E r \in PlainResponses(Len(requests)) :
          /\ requests' = Replied(requests, r)
          /\ resp' = r
          /\ IF ~retried /\ JwtExpired(r)
             THEN /\ retried' = TRUE
                  /\ apiPc' = "mr_get_jwt"
                  /\ UNCHANGED inner
             ELSE /\ inner' = [kind |-> "return", exc |-> ""]
                  /\ apiPc' = "mr_end"
                  /\ UNCHANGED retried
    /\ UNCHANGED <<fn, method, max_retries, base64_content, jwt_count, attempt,
                   sleeps, failures, outcome, keysVars, trackerVars, taskVars, extVars>>

\* http_client.get / post raises an httpx.HTTPError (connection, read, ...)
MrTransportError ==
    /\ apiPc = "mr_await"
    /\ requests' = Replied(requests, TransportError)
    /\ inner' = [kind |-> "raise", exc |-> "httpx.HTTPError"]
    /\ apiPc' = "mr_end"
    /\ UNCHANGED <<fn, method, max_retries, base64_content, jwt_count, retried, resp,
                   attempt, sleeps, failures, outcome, keysVars, trackerVars,
                   taskVars, extVars>>

\* make_request_with_jwt_retry called on its own ends: it returns resp or the
\* exception leaves it
MrEnd ==
    /\ fn = "make_request_with_jwt_retry"
    /\ apiPc = "mr_end"
    /\ outcome' = IF inner.kind = "return" THEN Return(resp) ELSE Raise(inner.exc)
    /\ apiPc' = "done"
    /\ UNCHANGED <<fn, method, max_retries, base64_content, jwt_count, requests,
                   retried, resp, inner, attempt, sleeps, failures, keysVars,
                   trackerVars, taskVars, extVars>>

(***************************************************************************)
(* core/google_api.py: download_image_with_jwt.                            *)
(***************************************************************************)
\* the calls of the model: the function, its arguments and where it starts
ApiCalls(most) ==
    {[fn |-> "make_request_with_jwt_retry", method |-> m, max_retries |-> 0,
      base64_content |-> "", pc |-> "mr_get_jwt"] : m \in {"GET", "post", "PUT"}}
      \cup {[fn |-> "download_image_with_jwt", method |-> "GET", max_retries |-> n,
             base64_content |-> "", pc |-> "dl_start"] : n \in 0..most}
      \cup {[fn |-> "upload_context_file", method |-> "POST", max_retries |-> 0,
             base64_content |-> c, pc |-> "up_get_jwt"] : c \in {"", "QQ=="}}
      \cup {[fn |-> "create_google_session", method |-> "POST", max_retries |-> 0,
             base64_content |-> "", pc |-> "cs_get_jwt"]}

\* a variant of the last-attempt test that is off by one
LastAttemptOffByOne(att, retries) == att = retries

\* attempt == max_retries - 1
LastAttempt(att, retries) == att = retries - 1

\* the handlers of asyncio.TimeoutError (status 504) and httpx.HTTPError (500):
\* on the last attempt the typed error is raised, else the body sleeps
\* 2 ** attempt seconds; [outcome, sleeps, pc]
RetryOrRaise(att, retries, status, type, slept) ==
    IF LastAttempt(att, retries)
    THEN [outcome |-> HTTPException(status, type), sleeps |-> slept, pc |-> "done"]
    ELSE [outcome |-> NoOutcome, sleeps |-> Append(slept, Pow2(att)), pc |-> "dl_sleep"]

\* the for loop takes its next value, or ends and line 406 raises
DownloadLoop(att) ==
    IF att < max_retries
    THEN /\ attempt' = att
         /\ retried' = FALSE
         /\ inner' = NoInner
         /\ apiPc' = "mr_get_jwt"
         /\ UNCHANGED outcome
    ELSE /\ outcome' = HTTPException(500, "Image download failed unexpectedly")
         /\ apiPc' = "done"
         /\ UNCHANGED <<attempt, retried, inner>>

\* download_image_with_jwt is entered
DownloadStart ==
    /\ fn = "download_image_with_jwt"
    /\ apiPc = "dl_start"
    /\ DownloadLoop(0)
    /\ UNCHANGED <<fn, method, max_retries, base64_content, jwt_count, requests, resp,
                   sleeps, failures, keysVars, trackerVars, taskVars, extVars>>

\* asyncio.wait_for gives up after 180 s while the request function is
\* suspended in get_jwt or in the upstream request
DownloadTimeout ==
    /\ fn = "download_image_with_jwt"
    /\ apiPc \in {"mr_get_jwt", "mr_await"}
    /\ LET h == RetryOrRaise(attempt, max_retries, 504, "Image download timeout", sleeps)
       IN /\ requests' = IF apiPc = "mr_await" THEN Replied(requests, TimedOut)
                         ELSE requests
          /\ failures' = Append(failures, "timeout")
          /\ outcome' = h.outcome
          /\ sleeps' = h.sleeps
          /\ apiPc' = h.pc
    /\ UNCHANGED <<fn, method, max_retries, base64_content, jwt_count, retried, resp,
                   inner, attempt, keysVars, trackerVars, taskVars, extVars>>

\* the request function ended: resp.raise_for_status() and return resp.content,
\* or the handler of httpx.HTTPError (HTTPStatusError is one), or the re-raise
\* of any other exception
DownloadAttemptEnd ==
    /\ fn = "download_image_with_jwt"
    /\ apiPc = "mr_end"
    /\ IF inner.kind = "return" /\ resp.status = 200
       THEN /\ outcome' = Return(resp)
            /\ apiPc' = "done"
            /\ UNCHANGED <<sleeps, failures>>
       ELSE IF inner.kind = "return" \/ inner.exc = "httpx.HTTPError"
       THEN LET h == RetryOrRaise(attempt, max_retries, 500, "Image download failed",
                                  sleeps)
            IN /\ failures' = Append(failures, IF inner.kind = "return" THEN "status"
                                                ELSE "transport")
               /\ outcome' = h.outcome
               /\ sleeps' = h.sleeps
               /\ apiPc' = h.pc
       ELSE /\ outcome' = Raise(inner.exc)
            /\ failures' = Append(failures, "other")
            /\ apiPc' = "done"
            /\ UNCHANGED sleeps
    /\ UNCHANGED <<fn, method, max_retries, base64_content, jwt_count, requests,
                   retried, resp, inner, attempt, keysVars, trackerVars, taskVars, extVars>>

\* asyncio.sleep returns and the loop goes on
DownloadWake ==
    /\ fn = "download_image_with_jwt"
    /\ apiPc = "dl_sleep"
    /\ DownloadLoop(attempt + 1)
    /\ UNCHANGED <<fn, method, max_retries, base64_content, jwt_count, requests, resp,
                   sleeps, failures, keysVars, trackerVars, taskVars, extVars>>

(***************************************************************************)
(* core/google_api.py: upload_context_file and create_google_session.      *)
(***************************************************************************)
\* the bodies of the responses to an upload
Payloads ==
    {NoPayload,
     Payload(400, "Invalid argument", TRUE, <<"OTHER">>),
     Payload(400, "Blocked by Model Armor", TRUE, <<"OTHER", "MODEL_ARMOR_VIOLATION">>),
     Payload(400, "Blocked by Model Armor", FALSE, <<"MODEL_ARMOR_VIOLATION">>),
     Payload(400, "Unsupported file type: application/x-msdownload", TRUE, <<>>),
     Payload(400, "Unsupported file type: application/x-msdownload", TRUE,
             <<"MODEL_ARMOR_VIOLATION">>)}

UploadResponses(n) == {Response(st, pl, n) : st \in Statuses, pl \in Payloads}

\* a variant of the encoder that yields nothing
B64EncodeEmpty(s) == ""

\* retry_content: the content base64-encoded once more
RetryContent(s) == B64Encode(s)

\* _extract_model_armor_violation: the position of the first item of
\* error.details whose reason is MODEL_ARMOR_VIOLATION, 0 for None
_extract_model_armor_violation(payload) ==
    IF ~payload.details_is_list
    THEN 0
    ELSE LET hits == {i \in 1..Len(payload.details) :
                         payload.details[i] = "MODEL_ARMOR_VIOLATION"}
         IN IF hits = {} THEN 0
            ELSE CHOOSE i \in hits : \A j \in hits : i <= j

\* the test of lines 202-215: the first response is a 400 whose body carries a
\* Model Armor violation, and there is content to re-encode
ArmorRetry(r, content) ==
    /\ r.status = 400
    /\ r.payload.json
    /\ _extract_model_armor_violation(r.payload) # 0
    /\ RetryContent(content) # ""

\* lines 222-287: what upload_context_file does with its last response
UploadResult(r) ==
    IF r.status # 200
    THEN IF r.status = 400 /\ r.payload.json
              /\ Contains(r.payload.message, "Unsupported file type")
         THEN HTTPException(400, "unsupported file type hint")
         ELSE IF r.status = 400 /\ r.payload.json
                   /\ _extract_model_armor_violation(r.payload) # 0
         THEN HTTPExceptionDetail(400, "model_armor_violation", FALSE)
         ELSE HTTPExceptionDetail(r.status, "upstream_error", r.status >= 500)
    ELSE Return(r)

\* _do_upload: get_jwt returns and the upload goes out, or get_jwt raises
UploadGetJwt ==
    /\ fn = "upload_context_file"
    /\ apiPc = "up_get_jwt"
    /\ \E ok \in BOOLEAN :
          IF ok
          THEN /\ jwt_count' = jwt_count + 1
               /\ requests' = Append(requests,
                                     Request(jwt_count',
                                             IF retried THEN RetryContent(base64_content)
                                             ELSE base64_content,
                                             0))
               /\ apiPc' = "up_await"
               /\ UNCHANGED outcome
          ELSE /\ outcome' = Raise("get_jwt error")
               /\ apiPc' = "done"
               /\ UNCHANGED <<jwt_count, requests>>
    /\ UNCHANGED <<fn, method, max_retries, base64_content, retried, resp, inner,
                   attempt, sleeps, failures, keysVars, trackerVars, taskVars, extVars>>

\* the response to an upload arrives: the first one may lead to the re-encoded
\* retry, else the function returns the file id or raises
UploadResponse ==
    /\ fn = "upload_context_file"
    /\ apiPc = "up_await"
    /\ \E r \in UploadResponses(Len(requests)) :
          /\ requests' = Replied(requests, r)
          /\ resp' = r
          /\ IF ~retried /\ ArmorRetry(r, base64_content)
             THEN /\ retried' = TRUE
                  /\ apiPc' = "up_get_jwt"
                  /\ UNCHANGED outcome
             ELSE /\ outcome' = UploadResult(r)
                  /\ apiPc' = "done"
                  /\ UNCHANGED retried
    /\ UNCHANGED <<fn, method, max_retries, base64_content, jwt_count, inner, attempt,
                   sleeps, failures, keysVars, trackerVars, taskVars, extVars>>

\* http_client.post raises in _do_upload: nothing catches it
UploadTransportError ==
    /\ fn = "upload_context_file"
    /\ apiPc = "up_await"
    /\ requests' = Replied(requests, TransportError)
    /\ outcome' = Raise("httpx.HTTPError")
    /\ apiPc' = "done"
    /\ UNCHANGED <<fn, method, max_retries, base64_content, jwt_count, retried, resp,
                   inner, attempt, sleeps, failures, keysVars, trackerVars, taskVars, extVars>>

\* create_google_session: get_jwt returns and the request goes out, or raises
SessionGetJwt ==
    /\ fn = "create_google_session"
    /\ apiPc = "cs_get_jwt"
    /\ \E ok \in BOOLEAN :
          IF ok
          THEN /\ jwt_count' = jwt_count + 1
               /\ requests' = Append(requests, Request(jwt_count', "", 0))
               /\ apiPc' = "cs_await"
               /\ UNCHANGED outcome
          ELSE /\ outcome' = Raise("get_jwt error")
               /\ apiPc' = "done"
               /\ UNCHANGED <<jwt_count, requests>>
    /\ UNCHANGED <<fn, method, max_retries, base64_content, retried, resp, inner,
                   attempt, sleeps, failures, keysVars, trackerVars, taskVars, extVars>>

\* lines 124-129: every status but 200 is raised, 200 returns the session name
SessionResult(r) ==
    IF r.status # 200 THEN HTTPException(r.status, "createSession failed")
    ELSE Return(r)

SessionResponse ==
    /\ fn = "create_google_session"
    /\ apiPc = "cs_await"
    /\ \E r \in PlainResponses(Len(requests)) :
          /\ requests' = Replied(requests, r)
          /\ resp' = r
          /\ outcome' = SessionResult(r)
    /\ apiPc' = "done"
    /\ UNCHANGED <<fn, method, max_retries, base64_content, jwt_count, retried, inner,
                   attempt, sleeps, failures, keysVars, trackerVars, taskVars, extVars>>

SessionTransportError ==
    /\ fn = "create_google_session"
    /\ apiPc = "cs_await"
    /\ requests' = Replied(requests, TransportError)
    /\ outcome' = Raise("httpx.HTTPError")
    /\ apiPc' = "done"
    /\ UNCHANGED <<fn, method, max_retries, base64_content, jwt_count, retried, resp,
                   inner, attempt, sleeps, failures, keysVars, trackerVars, taskVars, extVars>>

(***************************************************************************)
(* core/login_service.py: check_and_refresh.                               *)
(* An account of the store is a dict with id, disabled, expires_at and the *)
(* mailbox fields. expires_at is absent (kind "none"), a text strptime     *)
(* rejects (kind "bad") or a time (kind "time", at = the hour it names).   *)
(* mail_password stands for mail_password or email_password.               *)
(***************************************************************************)
NoExpiry == [kind |-> "none", at |-> 0]
BadExpiry == [kind |-> "bad", at |-> 0]
ExpiresAt(h) == [kind |-> "time", at |-> h]

Account(id, disabled, expires_at, provider, client_id, refresh_token, password) ==
    [id |-> id, disabled |-> disabled, expires_at |-> expires_at,
     mail_provider |-> provider, mail_client_id |-> client_id,
     mail_refresh_token |-> refresh_token, mail_password |-> password]

\* lines 388-393: the provider named by the account, or the one its fields imply
MailProvider(a) ==
    LET p == Lower(a.mail_provider)
    IN IF p # "" THEN p
       ELSE IF a.mail_client_id # "" \/ a.mail_refresh_token # "" THEN "microsoft"
       ELSE "duckmail"

\* lines 395-401
has_credentials(a) ==
    LET p == MailProvider(a)
    IN IF p = "microsoft" THEN a.mail_client_id # "" /\ a.mail_refresh_token # ""
       ELSE IF p \in {"chatgpt_mail", "chatgpt"} THEN TRUE
       ELSE a.mail_password # ""

\* lines 378-418: the account reaches the test of its remaining lifetime
ReachesPolicy(a) ==
    /\ ~a.disabled
    /\ a.expires_at.kind # "none"
    /\ has_credentials(a)
    /\ a.expires_at.kind = "time"

\* line 410, in whole hours
remaining_hours(a, now) == a.expires_at.at - now

IdsOf(accounts) == [i \in 1..Len(accounts) |-> accounts[i].id]

\* line 421
MarkedForDeletion(a, now) ==
    ReachesPolicy(a) /\ remaining_hours(a, now) < 0

\* line 429
MarkedForRefresh(a, now, window) ==
    /\ ReachesPolicy(a)
    /\ ~MarkedForDeletion(a, now)
    /\ remaining_hours(a, now) <= window

NoRefresh ==
    [done |-> FALSE, env |-> FALSE, now |-> 0, window |-> 0, fault |-> "none",
     accounts |-> <<>>, accounts_to_delete |-> <<>>, accounts_to_refresh |-> <<>>,
     deleted |-> FALSE, submitted |-> FALSE]

\* what a check meets: nothing, load_accounts_from_source raising, or
\* _apply_accounts_update raising
RefreshFaults == {"none", "load", "update"}

\* core/account.py: the accounts read from the store
load_accounts_from_source(stored) == stored

\* core/base_task_service.py: the store after the bulk update
_apply_accounts_update(stored, accounts) == accounts

\* check_and_refresh as one step (it never suspends): [store, tasks, current,
\* seen]. stored is the account store, env is os.environ.get("ACCOUNTS_CONFIG"),
\* now the clock in hours, window is config.basic.refresh_window_hours.
check_and_refresh(stored, tasks, current, env, now, window, fault) ==
    LET skipped == [NoRefresh EXCEPT !.done = TRUE, !.env = env, !.now = now,
                                     !.window = window, !.fault = fault]
        accounts == load_accounts_from_source(stored)
    IN IF env \/ fault = "load"
       THEN [store |-> stored, tasks |-> tasks, current |-> current, seen |-> skipped]
       ELSE LET accounts_to_delete ==
                    IdsOf(SelectSeq(accounts, LAMBDA a : MarkedForDeletion(a, now)))
                accounts_to_refresh ==
                    IdsOf(SelectSeq(accounts,
                                    LAMBDA a : MarkedForRefresh(a, now, window)))
                ids == {accounts_to_delete[i] : i \in 1..Len(accounts_to_delete)}
                deleted == Len(accounts_to_delete) > 0 /\ fault # "update"
                updated_accounts == SelectSeq(accounts, LAMBDA a : a.id \notin ids)
                r == IF Len(accounts_to_refresh) > 0
                     THEN start_login(tasks, current, accounts_to_refresh)
                     ELSE [raised |-> "not called", tasks |-> tasks, current |-> current]
            IN [store |-> IF deleted
                          THEN _apply_accounts_update(stored, updated_accounts)
                          ELSE stored,
                tasks |-> r.tasks,
                current |-> r.current,
                seen |-> [skipped EXCEPT !.accounts = accounts,
                                         !.accounts_to_delete = accounts_to_delete,
                                         !.accounts_to_refresh = accounts_to_refresh,
                                         !.deleted = deleted,
                                         !.submitted = (r.raised = "")]]

\* the clock never runs backwards from one check to the next
ClockReadings(most) == {h \in 0..most : h >= refreshSeen.now}

\* one call of check_and_refresh, by the polling loop or by another caller
CheckAndRefresh(env, now, window, fault) ==
    LET r == check_and_refresh(store, loginTasks, login_current, env, now, window,
                               fault)
    IN /\ alive
       /\ store' = r.store
       /\ loginTasks' = r.tasks
       /\ login_current' = r.current
       /\ refreshSeen' = r.seen
       /\ UNCHANGED <<alive, registerTasks, register_current, lastStart,
                      _is_polling, pollPc, healPc, healCancel, healSeen, healRound,
                      stopped, keysVars, trackerVars, apiVars, ctorVars, fmtVars, moreVars>>

(***************************************************************************)
(* core/login_service.py: start_polling, stop_polling and the health       *)
(* monitor (_auto_heal_account_pool). Each action is one step of the event *)
(* loop: from one suspending await to the next. The service is constructed *)
(* with a register service, so start_polling creates heal_task.            *)
(***************************************************************************)
\* target_min_available of _auto_heal_account_pool
target_min_available == 100

\* the accounts of multi_account_mgr: groups of n accounts that are alike in
\* config.disabled, config.is_expired() and should_retry()
Group(n, disabled, expired, retry) ==
    [n |-> n, disabled |-> disabled, is_expired |-> expired, should_retry |-> retry]

RECURSIVE CountAccounts(_)
CountAccounts(groups) ==
    IF Len(groups) = 0 THEN 0 ELSE groups[1].n + CountAccounts(Tail(groups))

\* lines 303-306
Candidates(pool) == SelectSeq(pool, LAMBDA g : ~g.disabled /\ ~g.is_expired)

\* a variant of line 327 that counts every candidate as available
AvailableAnyCandidate(candidates) == candidates

\* line 327
Available(candidates) == SelectSeq(candidates, LAMBDA g : g.should_retry)

\* BaseTaskService.get_current_task (core/base_task_service.py): the task the
\* marker names, None (no_task) when the marker is clear
get_current_task(tasks, current) ==
    IF current = NoTask THEN [no_task |-> TRUE, status |-> ""]
    ELSE [no_task |-> FALSE, status |-> tasks[current].status]

\* lines 309-310
is_running(tasks, current) ==
    LET current_task == get_current_task(tasks, current)
    IN ~current_task.no_task /\ current_task.status = "running"

NoCheck ==
    [checked |-> FALSE, env |-> FALSE, pool |-> <<>>, fault |-> "none",
     total |-> 0, available |-> 0, is_running |-> FALSE, register_count |-> 0,
     outcome |-> "none"]

\* what a check meets: nothing, an Exception while it reads the pool or the
\* current register task, or an Exception out of start_register
HealFaults == {"none", "read", "start"}

\* lines 299-354: the locals of one check and what it does: "skip" (ACCOUNTS_CONFIG
\* set), "error" (an Exception reaches the outer handler), "running" (a
\* register task is running), "enough", or "start" with register_count. The
\* record holds what the check got to read: no pool when it skips or fails
\* before the pool is read
HealDecision(env, pool, fault, tasks, current) ==
    LET candidates == Candidates(pool)
        total == CountAccounts(candidates)
        available == CountAccounts(Available(candidates))
        running == is_running(tasks, current)
        seen == [NoCheck EXCEPT !.checked = TRUE]
    IN IF env THEN [seen EXCEPT !.env = TRUE, !.outcome = "skip"]
       ELSE IF fault = "read" THEN [seen EXCEPT !.fault = fault, !.outcome = "error"]
       ELSE LET s == [seen EXCEPT !.pool = pool, !.total = total,
                                  !.is_running = running]
            IN IF total = 0
               THEN IF running THEN [s EXCEPT !.outcome = "running"]
                    ELSE [s EXCEPT !.outcome = "start",
                                   !.register_count = target_min_available]
               ELSE IF available < target_min_available
               THEN IF running
                    THEN [s EXCEPT !.available = available, !.outcome = "running"]
                    ELSE [s EXCEPT !.available = available, !.outcome = "start",
                                   !.register_count =
                                       Max(1, target_min_available - available)]
               ELSE [s EXCEPT !.available = available, !.outcome = "enough"]

\* a variant of the finally block that does not wait for heal_task
NoAwaitHeal(heal) == "returned"

\* heal_task.done()
HealDone(heal) == heal \in {"none", "done", "cancelled"}

\* lines 498-504: where start_polling stands after heal_task.cancel()
AwaitHeal(heal) == IF HealDone(heal) THEN "returned" ELSE "awaiting_heal"

\* the finally block of start_polling up to "await heal_task" or the return;
\* heal is where heal_task stands when the block runs
PollFinally(heal) ==
    /\ _is_polling' = FALSE
    /\ healCancel' = IF HealDone(heal) THEN healCancel ELSE TRUE
    /\ pollPc' = AwaitHeal(heal)

\* the value of config.retry.login_refresh_polling_seconds: 0, a positive
\* number of seconds, or a text int() rejects
PollingConfigs == {"disabled", "enabled", "invalid"}

\* lines 483-504: the loop test (polling is what it reads), one turn of the
\* loop up to its sleep, and the finally block when the loop ends
PollTurn(polling, heal, cfg, env, now, window, fault) ==
    IF ~polling
    THEN /\ PollFinally(heal)
         /\ UNCHANGED <<store, loginTasks, login_current, refreshSeen>>
    ELSE LET r == check_and_refresh(store, loginTasks, login_current, env, now,
                                    window, fault)
         IN /\ store' = r.store
            /\ loginTasks' = r.tasks
            /\ login_current' = r.current
            /\ refreshSeen' = r.seen
            /\ IF cfg = "enabled"
               THEN /\ pollPc' = "sleeping"
                    /\ _is_polling' = TRUE
                    /\ UNCHANGED healCancel
               ELSE PollFinally(heal)

\* a call of start_polling while no call of it is in progress and polling is
\* enabled in the configuration: lines 464-490, up to the first sleep
StartPolling(cfg, env, now, window, fault) ==
    /\ alive
    /\ pollPc \in {"idle", "returned"}
    /\ ~_is_polling
    /\ healPc' = "scheduled"
    /\ stopped' = FALSE
    /\ PollTurn(TRUE, "scheduled", cfg, env, now, window, fault)
    /\ UNCHANGED <<alive, registerTasks, register_current, lastStart, healSeen,
                   healRound, keysVars, trackerVars, apiVars, ctorVars, fmtVars, moreVars>>

\* the sleep of the polling loop ends: the loop test and the next turn
PollWake(cfg, env, now, window, fault) ==
    /\ alive
    /\ pollPc = "sleeping"
    /\ PollTurn(_is_polling, healPc, cfg, env, now, window, fault)
    /\ UNCHANGED <<alive, registerTasks, register_current, lastStart, healPc,
                   healSeen, healRound, stopped, keysVars, trackerVars, apiVars,
                   ctorVars, fmtVars, moreVars>>

\* the task running start_polling is cancelled while it sleeps: CancelledError
\* is caught at line 491 and the finally block runs
PollCancel ==
    /\ alive
    /\ pollPc = "sleeping"
    /\ PollFinally(healPc)
    /\ UNCHANGED <<alive, loginTasks, login_current, registerTasks,
                   register_current, lastStart, healPc, healSeen, healRound,
                   stopped, store, refreshSeen, keysVars, trackerVars, apiVars,
                   ctorVars, fmtVars, moreVars>>

\* "await heal_task" returns (or raises CancelledError, which is passed over)
\* once heal_task is done; start_polling returns
PollResume ==
    /\ alive
    /\ pollPc = "awaiting_heal"
    /\ HealDone(healPc)
    /\ pollPc' = "returned"
    /\ UNCHANGED <<alive, loginTasks, login_current, registerTasks,
                   register_current, lastStart, _is_polling, healPc, healCancel,
                   healSeen, healRound, stopped, store, refreshSeen, keysVars,
                   trackerVars, apiVars, ctorVars, fmtVars, moreVars>>

\* stop_polling, called while polling is on
StopPolling ==
    /\ alive
    /\ _is_polling
    /\ _is_polling' = FALSE
    /\ stopped' = TRUE
    /\ UNCHANGED <<alive, loginTasks, login_current, registerTasks,
                   register_current, lastStart, pollPc, healPc, healCancel,
                   healSeen, healRound, store, refreshSeen, keysVars, trackerVars,
                   apiVars, ctorVars, fmtVars, moreVars>>

\* "while self._is_polling" of the monitor: it sleeps again or returns
HealLoopTest(polling) == IF polling THEN "sleeping" ELSE "done"

\* a variant of the handler of line 359 that leaves the loop
HandlerLeavesLoop(polling) == "done"

\* lines 359-361 and 295: after the handler's sleep the loop test runs again
AfterHandler(polling) == HealLoopTest(polling)

\* heal_task starts: a task cancelled before its first step never runs; else
\* lines 284-297, up to the first sleep
HealStart ==
    /\ alive
    /\ healPc = "scheduled"
    /\ healPc' = IF healCancel THEN "cancelled" ELSE HealLoopTest(_is_polling)
    /\ healCancel' = FALSE
    /\ UNCHANGED <<alive, loginTasks, login_current, registerTasks,
                   register_current, lastStart, _is_polling, pollPc, healSeen,
                   healRound, stopped, store, refreshSeen, keysVars, trackerVars,
                   apiVars, ctorVars, fmtVars, moreVars>>

\* the 600 s sleep of the monitor ends. A pending cancellation is raised there
\* and caught at line 356 (break). Otherwise the check of lines 299-354 runs,
\* start_register included, then the loop test or the handler of line 359
HealCheck(env, pool, fault) ==
    /\ alive
    /\ healPc = "sleeping"
    /\ IF healCancel
       THEN /\ healPc' = "done"
            /\ healCancel' = FALSE
            /\ UNCHANGED <<registerTasks, register_current, lastStart, healSeen,
                           healRound>>
       ELSE LET d == HealDecision(env, pool, fault, registerTasks, register_current)
                r == start_register(registerTasks, register_current, env,
                                    d.register_count, 0)
                failed == d.outcome = "start" /\ (fault = "start" \/ r.raised # "")
            IN /\ healSeen' = IF failed
                               THEN [d EXCEPT !.fault = "start",
                                              !.outcome = "start failed"]
                               ELSE d
               /\ healRound' = 1 - healRound
               /\ UNCHANGED healCancel
               /\ healPc' = IF d.outcome = "error" THEN "error_sleep"
                                                    ELSE HealLoopTest(_is_polling)
               /\ IF d.outcome = "start" /\ fault # "start"
                  THEN /\ registerTasks' = r.tasks
                       /\ register_current' = r.current
                       /\ lastStart' = [kind |-> "register",
                                        outcome |-> IF r.raised = "" THEN "created"
                                                                     ELSE r.raised]
                  ELSE UNCHANGED <<registerTasks, register_current, lastStart>>
    /\ UNCHANGED <<alive, loginTasks, login_current, _is_polling, pollPc, stopped,
                   store, refreshSeen, keysVars, trackerVars, apiVars, ctorVars,
                   fmtVars, moreVars>>

\* the 60 s sleep of the handler of line 359 ends: a pending cancellation is
\* raised outside the try block and ends the task; otherwise the loop test
HealErrorWake ==
    /\ alive
    /\ healPc = "error_sleep"
    /\ healPc' = IF healCancel THEN "cancelled" ELSE AfterHandler(_is_polling)
    /\ healCancel' = FALSE
    /\ UNCHANGED <<alive, loginTasks, login_current, registerTasks,
                   register_current, lastStart, _is_polling, pollPc, healSeen,
                   healRound, stopped, store, refreshSeen, keysVars, trackerVars,
                   apiVars, ctorVars, fmtVars, moreVars>>

\* the state before start_polling is called
IdlePolling ==
    /\ _is_polling = FALSE
    /\ pollPc = "idle"
    /\ healPc = "none"
    /\ healCancel = FALSE
    /\ healSeen = NoCheck
    /\ healRound = 0
    /\ stopped = FALSE
    /\ store = <<>>
    /\ refreshSeen = NoRefresh

(***************************************************************************)
(* core/browser_failure_tracker.py: BrowserFailureTracker.__new__          *)
(* Threads run __new__ one line at a time; the interpreter may switch      *)
(* threads between any two lines.                                          *)
(***************************************************************************)
Constructors == 1..NumConstructors

\* the attributes __new__ sets on the new instance
Attrs == {"_failure_count", "_max_failures", "_counter_lock"}

\* cls._instance: None (created = FALSE) or the object with the attributes set
\* so far; made counts the objects super().__new__ has made
NoInstance == [created |-> FALSE, attrs |-> {}, made |-> 0]

NotObtained == [got |-> FALSE, attrs |-> {}]

\* no thread is in __new__ and the class lock is free
ConstructorsIdle ==
    /\ _lock = NoThread
    /\ newPc = [t \in Constructors |-> "idle"]
    /\ obtained = [t \in Constructors |-> NotObtained]

\* the class after "_tracker = BrowserFailureTracker()" at import
IdleCtor ==
    /\ _instance = [created |-> TRUE, attrs |-> Attrs, made |-> 1]
    /\ ConstructorsIdle

\* a thread calls BrowserFailureTracker()
NewCall(t) ==
    /\ newPc[t] = "idle"
    /\ newPc' = [newPc EXCEPT ![t] = "outer_check"]
    /\ UNCHANGED <<_instance, _lock, obtained, keysVars, trackerVars, taskVars,
                   apiVars, pollVars, fmtVars, moreVars>>

\* line 15: if cls._instance is None (read without the lock)
NewOuterCheck(t) ==
    /\ newPc[t] = "outer_check"
    /\ newPc' = [newPc EXCEPT ![t] = IF _instance.created THEN "return" ELSE "acquire"]
    /\ UNCHANGED <<_instance, _lock, obtained, keysVars, trackerVars, taskVars,
                   apiVars, pollVars, fmtVars, moreVars>>

\* line 16: with cls._lock
NewAcquire(t) ==
    /\ newPc[t] = "acquire"
    /\ _lock = NoThread
    /\ _lock' = t
    /\ newPc' = [newPc EXCEPT ![t] = "inner_check"]
    /\ UNCHANGED <<_instance, obtained, keysVars, trackerVars, taskVars,
                   apiVars, pollVars, fmtVars, moreVars>>

\* line 17: if cls._instance is None (under the lock)
NewInnerCheck(t) ==
    /\ newPc[t] = "inner_check"
    /\ newPc' = [newPc EXCEPT ![t] = IF _instance.created THEN "release" ELSE "create"]
    /\ UNCHANGED <<_instance, _lock, obtained, keysVars, trackerVars, taskVars,
                   apiVars, pollVars, fmtVars, moreVars>>

\* line 18: cls._instance = super().__new__(cls)
NewCreate(t) ==
    /\ newPc[t] = "create"
    /\ _instance' = [created |-> TRUE, attrs |-> {}, made |-> _instance.made + 1]
    /\ newPc' = [newPc EXCEPT ![t] = "set_count"]
    /\ UNCHANGED <<_lock, obtained, keysVars, trackerVars, taskVars,
                   apiVars, pollVars, fmtVars, moreVars>>

\* line 19: cls._instance._failure_count = 0
NewSetCount(t) ==
    /\ newPc[t] = "set_count"
    /\ _instance' = [_instance EXCEPT !.attrs = @ \cup {"_failure_count"}]
    /\ _failure_count' = 0
    /\ newPc' = [newPc EXCEPT ![t] = "set_max"]
    /\ UNCHANGED <<_lock, obtained, _counter_lock, tpc, tLocal, tResult, tOrdinal,
                   increments, callsLeft, resetsLeft, keysVars, taskVars,
                   apiVars, pollVars, fmtVars, moreVars>>

\* line 20: cls._instance._max_failures = 5
NewSetMax(t) ==
    /\ newPc[t] = "set_max"
    /\ _instance' = [_instance EXCEPT !.attrs = @ \cup {"_max_failures"}]
    /\ newPc' = [newPc EXCEPT ![t] = "set_lock"]
    /\ UNCHANGED <<_lock, obtained, keysVars, trackerVars, taskVars,
                   apiVars, pollVars, fmtVars, moreVars>>

\* line 21: cls._instance._counter_lock = threading.Lock()
NewSetLock(t) ==
    /\ newPc[t] = "set_lock"
    /\ _instance' = [_instance EXCEPT !.attrs = @ \cup {"_counter_lock"}]
    /\ _counter_lock' = NoThread
    /\ newPc' = [newPc EXCEPT ![t] = "release"]
    /\ UNCHANGED <<_lock, obtained, _failure_count, tpc, tLocal, tResult, tOrdinal,
                   increments, callsLeft, resetsLeft, keysVars, taskVars,
                   apiVars, pollVars, fmtVars, moreVars>>

\* the end of the with block: the class lock is released
NewRelease(t) ==
    /\ newPc[t] = "release"
    /\ _lock' = NoThread
    /\ newPc' = [newPc EXCEPT ![t] = "return"]
    /\ UNCHANGED <<_instance, obtained, keysVars, trackerVars, taskVars,
                   apiVars, pollVars, fmtVars, moreVars>>

\* line 22: return cls._instance; the caller has the object as it is now
NewReturn(t) ==
    /\ newPc[t] = "return"
    /\ obtained' = [obtained EXCEPT ![t] = [got |-> TRUE, attrs |-> _instance.attrs]]
    /\ newPc' = [newPc EXCEPT ![t] = "done"]
    /\ UNCHANGED <<_instance, _lock, keysVars, trackerVars, taskVars,
                   apiVars, pollVars, fmtVars, moreVars>>

(***************************************************************************)
(* core/gemini_format.py: GeminiErrorConverter.                            *)
(***************************************************************************)
\* GeminiErrorConverter.STATUS_MAP
STATUS_MAP ==
    (400 :> "INVALID_ARGUMENT") @@ (401 :> "UNAUTHENTICATED")
        @@ (403 :> "PERMISSION_DENIED") @@ (404 :> "NOT_FOUND")
        @@ (429 :> "RESOURCE_EXHAUSTED") @@ (500 :> "INTERNAL")
        @@ (503 :> "UNAVAILABLE") @@ (504 :> "DEADLINE_EXCEEDED")

\* a variant of the lookup whose default is INTERNAL
StatusMapGetInternal(status_code) ==
    IF status_code \in DOMAIN STATUS_MAP THEN STATUS_MAP[status_code] ELSE "INTERNAL"

\* STATUS_MAP.get(status_code, "UNKNOWN")
StatusMapGet(status_code) ==
    IF status_code \in DOMAIN STATUS_MAP THEN STATUS_MAP[status_code] ELSE "UNKNOWN"

\* the details argument: None, or a dict given as the sequence of its items
NoDetails == [given |-> FALSE, items |-> <<>>]
Details(items) == [given |-> TRUE, items |-> items]

\* "if details": None and the empty dict are falsy
Truthy(d) == d.given /\ Len(d.items) > 0

NoErrorArgs == [status_code |-> 0, message |-> "", details |-> NoDetails, call |-> FALSE]

\* the returned dict {"error": {...}}; has_details says whether the inner
\* dict has the key "details"
NoErrorResp ==
    [returned |-> FALSE, code |-> 0, message |-> "", status |-> "",
     has_details |-> FALSE, details |-> NoDetails]

create_error_response(status_code, msg, d) ==
    [returned |-> TRUE, code |-> status_code, message |-> msg,
     status |-> StatusMapGet(status_code),
     has_details |-> Truthy(d),
     details |-> IF Truthy(d) THEN d ELSE NoDetails]

\* the state in which create_error_response is not being called
IdleFmt ==
    /\ errorArgs = NoErrorArgs
    /\ errorResp = NoErrorResp

\* the two texts login_and_extract looks for in the message of the exception
\* it caught; the first stands for the text of the browser library's
\* "browser cannot be linked" error, written in the source in Chinese
BrowserCannotLink == "<browser cannot link>"
RemoteDebuggingPort == "remote-debugging-port"

\* the messages of the exceptions that carry one of the two texts
LaunchErrors == {"127.0.0.1:9222 " \o BrowserCannotLink,
                 "add --" \o RemoteDebuggingPort \o "=9222"}

\* the messages of the other exceptions
OtherErrors == {"element not found", ""}

\* the failures _run_flow returns
FlowFailures == {"send code button not found", "verification code timeout",
                 "URL parameters not found"}

\* what the browser and the flow do in one call: _create_page raises, or it
\* returns a page and _run_flow raises, returns a failure or returns a config
AutoScripts ==
    {[stage |-> "create_page", how |-> "raise", text |-> m] :
        m \in LaunchErrors \cup OtherErrors}
    \cup {[stage |-> "run_flow", how |-> "raise", text |-> m] :
              m \in LaunchErrors \cup OtherErrors}
    \cup {[stage |-> "run_flow", how |-> "failed", text |-> e] : e \in FlowFailures}
    \cup {[stage |-> "run_flow", how |-> "config", text |-> ""]}

NoAutoScript == [stage |-> "none", how |-> "none", text |-> ""]
NoAutoResult == [signal |-> "none", success |-> FALSE, error |-> ""]

\* {"success": False, "error": error_msg}
AutoFailure(error_msg) == [signal |-> "return", success |-> FALSE, error |-> error_msg]

\* {"success": True, "config": config}
AutoConfig == [signal |-> "return", success |-> TRUE, error |-> ""]

\* a variant of the test that takes every exception for a browser failure
EveryErrorIsBrowserFailure(error_msg) == TRUE

\* the test of the handler: one of the two texts is in error_msg
IsBrowserFailure(error_msg) ==
    \/ Contains(error_msg, BrowserCannotLink)
    \/ Contains(error_msg, RemoteDebuggingPort)

\* the state in which login_and_extract is not being called
IdleAuto ==
    /\ autoPc = "idle"
    /\ autoScript = NoAutoScript
    /\ autoPage = FALSE
    /\ autoError = ""
    /\ autoReports = 0
    /\ autoResult = NoAutoResult

\* a worker calls login_and_extract: page = None, then the try block
AutoCall(script) ==
    /\ autoPc \in {"idle", "returned"}
    /\ autoPc' = "create_page"
    /\ autoScript' = script
    /\ autoPage' = FALSE
    /\ autoError' = ""
    /\ autoReports' = 0
    /\ autoResult' = NoAutoResult
    /\ UNCHANGED <<keysVars, trackerVars, taskVars, apiVars, pollVars, ctorVars,
                   fmtVars, chunkVars, writerVars, pollCalls, cooldownVars>>

\* page = self._create_page()
AutoCreatePage ==
    /\ autoPc = "create_page"
    /\ IF autoScript.stage = "create_page"
       THEN /\ autoError' = autoScript.text
            /\ autoPc' = "except"
            /\ UNCHANGED autoPage
       ELSE /\ autoPage' = TRUE
            /\ autoPc' = "run_flow"
            /\ UNCHANGED autoError
    /\ UNCHANGED <<autoScript, autoReports, autoResult, keysVars, trackerVars,
                   taskVars, apiVars, pollVars, ctorVars, fmtVars, chunkVars, writerVars, pollCalls, cooldownVars>>

\* return self._run_flow(page, email, mail_client)
AutoRunFlow ==
    /\ autoPc = "run_flow"
    /\ IF autoScript.how = "raise"
       THEN /\ autoError' = autoScript.text
            /\ autoPc' = "except"
            /\ UNCHANGED autoResult
       ELSE /\ autoResult' = IF autoScript.how = "config" THEN AutoConfig
                             ELSE AutoFailure(autoScript.text)
            /\ autoPc' = "finally"
            /\ UNCHANGED autoError
    /\ UNCHANGED <<autoScript, autoPage, autoReports, keysVars, trackerVars,
                   taskVars, apiVars, pollVars, ctorVars, fmtVars, chunkVars, writerVars, pollCalls, cooldownVars>>

\* except Exception as exc: a browser failure is reported to the tracker, whose
\* SystemExit leaves the handler; otherwise the failure dict is returned
AutoExcept ==
    /\ autoPc = "except"
    /\ autoPc' = "finally"
    /\ IF IsBrowserFailure(autoError)
       THEN LET r == record_failure(_failure_count)
            IN /\ _failure_count' = r.count
               /\ autoReports' = autoReports + 1
               /\ autoResult' = IF r.signal = "SystemExit"
                                THEN [signal |-> "SystemExit", success |-> FALSE,
                                      error |-> ""]
                                ELSE AutoFailure(autoError)
       ELSE /\ autoResult' = AutoFailure(autoError)
            /\ UNCHANGED <<_failure_count, autoReports>>
    /\ UNCHANGED <<autoScript, autoPage, autoError, _counter_lock, tpc, tLocal,
                   tResult, tOrdinal, increments, callsLeft, resetsLeft, keysVars,
                   taskVars, apiVars, pollVars, ctorVars, fmtVars, chunkVars, writerVars, pollCalls, cooldownVars>>

\* finally: page.quit() when there is a page, _cleanup_user_data; then the
\* pending return or the pending SystemExit takes effect
AutoFinally ==
    /\ autoPc = "finally"
    /\ autoPage' = FALSE
    /\ autoPc' = IF autoResult.signal = "return" THEN "returned" ELSE "raised"
    /\ UNCHANGED <<autoScript, autoError, autoReports, autoResult, keysVars,
                   trackerVars, taskVars, apiVars, pollVars, ctorVars, fmtVars, chunkVars, writerVars, pollCalls, cooldownVars>>

\* the chunks one converter is asked for
MaxChunks == 3

\* None, for an optional argument
None == "None"

\* the arguments of create_stream_chunk
ChunkTexts == {None, "", "hey", "word", "thinking"}
InlineDatas == {None, "image"}
ThoughtSignatures == {None, "sig"}
FinishReasons == {None, "STOP"}
PromptCounts == {7}

\* a variant of the estimate without the + 1
token_estimate_floor(text) == Len(text) \div 4

\* token_estimate = len(text) // 4 + 1
token_estimate(text) == Len(text) \div 4 + 1

\* a mapping without keys
EmptyDict == [k \in {} |-> 0]

\* GeminiResponseConverter._build_usage_metadata
_build_usage_metadata(prompt, candidates, thoughts) ==
    [promptTokenCount |-> prompt,
     totalTokenCount |-> prompt + candidates + thoughts,
     promptTokensDetails |-> prompt]
    @@ (IF candidates > 0 THEN "candidatesTokenCount" :> candidates ELSE EmptyDict)
    @@ (IF thoughts > 0 THEN "thoughtsTokenCount" :> thoughts ELSE EmptyDict)

\* the parts of the chunk
ChunkParts(text, is_thought, inline_data, thought_signature) ==
    (IF thought_signature # None /\ text = "" /\ inline_data = None
     THEN <<[kind |-> "text", text |-> "", thought |-> FALSE,
             thoughtSignature |-> thought_signature]>>
     ELSE IF text # None
          THEN <<[kind |-> "text", text |-> text, thought |-> is_thought,
                  thoughtSignature |-> None]>>
          ELSE <<>>)
    \o (IF inline_data # None
        THEN <<[kind |-> "inlineData", text |-> inline_data, thought |-> is_thought,
                thoughtSignature |-> IF is_thought THEN None ELSE thought_signature]>>
        ELSE <<>>)

NoChunk == [parts |-> <<>>, finishReason |-> None, usageMetadata |-> EmptyDict]

\* the converter after __init__
IdleChunk ==
    /\ prompt_token_count = 0
    /\ candidates_token_count = 0
    /\ thoughts_token_count = 0
    /\ chunk = NoChunk
    /\ emitted = <<>>
    /\ usages = <<>>

\* set_prompt_tokens(count), before the first chunk
SetPromptTokens(count) ==
    /\ usages = <<>>
    /\ prompt_token_count # count
    /\ prompt_token_count' = count
    /\ UNCHANGED <<candidates_token_count, thoughts_token_count, chunk, emitted,
                   usages, keysVars, trackerVars, taskVars, apiVars, pollVars,
                   ctorVars, fmtVars, autoVars, writerVars, pollCalls, cooldownVars>>

\* create_stream_chunk(text, is_thought, inline_data, finish_reason,
\* thought_signature)
CreateStreamChunk(text, is_thought, inline_data, finish_reason, thought_signature) ==
    /\ Len(usages) < MaxChunks
    /\ LET parts == ChunkParts(text, is_thought, inline_data, thought_signature)
           counted == text # None /\ text # ""
           thoughts == IF counted /\ is_thought
                       THEN thoughts_token_count + token_estimate(text)
                       ELSE thoughts_token_count
           candidates == IF counted /\ ~is_thought
                         THEN candidates_token_count + token_estimate(text)
                         ELSE candidates_token_count
           usage == _build_usage_metadata(prompt_token_count, candidates, thoughts)
       IN /\ thoughts_token_count' = thoughts
          /\ candidates_token_count' = candidates
          /\ chunk' = [parts |-> parts, finishReason |-> finish_reason,
                       usageMetadata |-> usage]
          /\ emitted' = emitted \o SelectSeq(parts, LAMBDA part : part.kind = "text")
          /\ usages' = Append(usages, usage)
    /\ UNCHANGED <<prompt_token_count, keysVars, trackerVars, taskVars, apiVars,
                   pollVars, ctorVars, fmtVars, autoVars, writerVars, pollCalls, cooldownVars>>

\* the writers of the account store: a login task's worker in _refresh_one, a
\* register task's worker in _register_one (each in a thread of its service's
\* executor), and check_and_refresh on the event loop
StoreWriters == {"refresh", "register", "delete"}

\* the account _refresh_one is asked to refresh, and the one _register_one makes
RefreshedId == "old@mail"
RegisteredId == "new@mail"

\* the hour at which check_and_refresh runs, and the hour a new session ends
CheckHour == 1
NewExpiry == 12

\* result["config"] of a successful sign-in with the mail fields set
ConfigData(id, password) ==
    Account(id, FALSE, ExpiresAt(NewExpiry), "duckmail", "", "", password)

\* for acc in accounts: if acc.get("id") == id: acc.update(config_data); break
UpdateFirst(accounts, id, config_data) ==
    LET found == {i \in 1..Len(accounts) : accounts[i].id = id}
    IN IF found = {} THEN accounts
       ELSE LET i == CHOOSE j \in found : \A k \in found : j <= k
            IN [accounts EXCEPT ![i] = [config_data EXCEPT !.disabled = accounts[i].disabled]]

\* the rest of the polling group when the store changes
pollRest == <<_is_polling, pollPc, healPc, healCancel, healSeen, healRound, stopped,
              refreshSeen>>

\* no writer runs
IdleWriters ==
    /\ writerPc = [w \in StoreWriters |-> "idle"]
    /\ writerAccounts = [w \in StoreWriters |-> <<>>]

\* _refresh_one, lines 107-113: accounts = load_accounts_from_source(); it
\* returns a failure when the account is missing or disabled
RefreshLoad ==
    /\ writerPc["refresh"] = "idle"
    /\ LET accounts == load_accounts_from_source(store)
           found == {i \in 1..Len(accounts) : accounts[i].id = RefreshedId}
       IN /\ writerAccounts' = [writerAccounts EXCEPT !["refresh"] = accounts]
          /\ writerPc' = [writerPc EXCEPT !["refresh"] =
                IF found = {} \/ \E i \in found : accounts[i].disabled
                THEN "failed" ELSE "loaded"]
    /\ UNCHANGED <<store, pollRest, keysVars, trackerVars, taskVars, apiVars,
                   ctorVars, fmtVars, autoVars, chunkVars, pollCalls, cooldownVars>>

\* _refresh_one, lines 204-236: the sign-in ends; on success the account of
\* the list loaded at line 107 is updated and the list is written back
RefreshWrite(script) ==
    /\ writerPc["refresh"] = "loaded"
    /\ LET result == login_and_extract(script, 0)
       IN IF result.success
          THEN LET accounts == UpdateFirst(writerAccounts["refresh"], RefreshedId,
                                          ConfigData(RefreshedId, "pw"))
               IN /\ writerAccounts' = [writerAccounts EXCEPT !["refresh"] = accounts]
                  /\ store' = _apply_accounts_update(store, accounts)
                  /\ writerPc' = [writerPc EXCEPT !["refresh"] = "written"]
          ELSE /\ writerPc' = [writerPc EXCEPT !["refresh"] = "failed"]
               /\ UNCHANGED <<store, writerAccounts>>
    /\ UNCHANGED <<pollRest, keysVars, trackerVars, taskVars, apiVars, ctorVars,
                   fmtVars, autoVars, chunkVars, pollCalls, cooldownVars>>

\* _register_one, lines 181-204: the sign-in ends; on success
\* accounts_data = load_accounts_from_source() and the new account is put in
RegisterLoad(script) ==
    /\ writerPc["register"] = "idle"
    /\ LET result == login_and_extract(script, 0)
           accounts_data == load_accounts_from_source(store)
           config_data == ConfigData(RegisteredId, "pw")
           updated == \E i \in 1..Len(accounts_data) :
                         accounts_data[i].id = RegisteredId
       IN IF result.success
          THEN /\ writerAccounts' = [writerAccounts EXCEPT !["register"] =
                     IF updated
                     THEN [i \in 1..Len(accounts_data) |->
                             IF i = CHOOSE j \in 1..Len(accounts_data) :
                                       /\ accounts_data[j].id = RegisteredId
                                       /\ \A k \in 1..(j - 1) :
                                             accounts_data[k].id # RegisteredId
                             THEN config_data ELSE accounts_data[i]]
                     ELSE Append(accounts_data, config_data)]
               /\ writerPc' = [writerPc EXCEPT !["register"] = "loaded"]
          ELSE /\ writerPc' = [writerPc EXCEPT !["register"] = "failed"]
               /\ UNCHANGED writerAccounts
    /\ UNCHANGED <<store, pollRest, keysVars, trackerVars, taskVars, apiVars,
                   ctorVars, fmtVars, autoVars, chunkVars, pollCalls, cooldownVars>>

\* _register_one, line 206: self._apply_accounts_update(accounts_data)
RegisterWrite ==
    /\ writerPc["register"] = "loaded"
    /\ store' = _apply_accounts_update(store, writerAccounts["register"])
    /\ writerPc' = [writerPc EXCEPT !["register"] = "written"]
    /\ UNCHANGED <<writerAccounts, pollRest, keysVars, trackerVars, taskVars,
                   apiVars, ctorVars, fmtVars, autoVars, chunkVars, pollCalls, cooldownVars>>

\* check_and_refresh, line 370: accounts = load_accounts_from_source()
DeleteLoad ==
    /\ writerPc["delete"] = "idle"
    /\ LET accounts == load_accounts_from_source(store)
       IN /\ writerAccounts' = [writerAccounts EXCEPT !["delete"] = accounts]
          /\ writerPc' = [writerPc EXCEPT !["delete"] =
                IF \E i \in 1..Len(accounts) : MarkedForDeletion(accounts[i], CheckHour)
                THEN "loaded" ELSE "failed"]
    /\ UNCHANGED <<store, pollRest, keysVars, trackerVars, taskVars, apiVars,
                   ctorVars, fmtVars, autoVars, chunkVars, pollCalls, cooldownVars>>

\* check_and_refresh, lines 438-446: the list without the expired accounts is
\* written back
DeleteWrite ==
    /\ writerPc["delete"] = "loaded"
    /\ store' = _apply_accounts_update(store,
                    SelectSeq(writerAccounts["delete"],
                              LAMBDA a : ~MarkedForDeletion(a, CheckHour)))
    /\ writerPc' = [writerPc EXCEPT !["delete"] = "written"]
    /\ UNCHANGED <<writerAccounts, pollRest, keysVars, trackerVars, taskVars,
                   apiVars, ctorVars, fmtVars, autoVars, chunkVars, pollCalls, cooldownVars>>

(***************************************************************************)
(* core/login_service.py: any number of start_polling calls. Each call is  *)
(* a coroutine of its own with its own local heal_task; all of them share  *)
(* _is_polling. The store is empty and the pool has enough accounts, so    *)
(* check_and_refresh and the monitor's check change nothing.               *)
(***************************************************************************)
\* the start_polling calls of the model
MaxPollCalls == 3

\* one call of start_polling: where it stands, where its heal_task stands, and
\* whether heal_task.cancel() is pending
PollCall(pc, heal, cancel) == [pc |-> pc, heal |-> heal, cancel |-> cancel]

\* the pool the monitors meet
FullPool == <<Group(target_min_available, FALSE, FALSE, TRUE)>>

\* one turn of the while loop of a call: the loop test (polling is what it
\* reads), check_and_refresh, the configuration read again, the sleep; the
\* finally block when the loop ends
LoopTurn(call, polling, cfg) ==
    LET r == check_and_refresh(store, loginTasks, login_current, FALSE, 1, 0, "none")
    IN IF polling /\ cfg = "enabled" /\ r.store = store /\ r.tasks = loginTasks
       THEN [polling |-> TRUE, call |-> [call EXCEPT !.pc = "sleeping"]]
       ELSE [polling |-> FALSE,
             call |-> [call EXCEPT !.pc = AwaitHeal(call.heal),
                                   !.cancel = IF HealDone(call.heal) THEN call.cancel
                                              ELSE TRUE]]

\* a call of start_polling, lines 463-490 up to its first sleep or its return
StartPollingCall(cfg) ==
    /\ Len(pollCalls) < MaxPollCalls
    /\ IF cfg # "enabled"
       THEN /\ pollCalls' = Append(pollCalls, PollCall("disabled", "none", FALSE))
            /\ UNCHANGED _is_polling
       ELSE IF _is_polling
       THEN /\ pollCalls' = Append(pollCalls, PollCall("rejected", "none", FALSE))
            /\ UNCHANGED _is_polling
       ELSE LET t == LoopTurn(PollCall("running", "scheduled", FALSE), TRUE, cfg)
            IN /\ pollCalls' = Append(pollCalls, t.call)
               /\ _is_polling' = t.polling
    /\ stopped' = FALSE
    /\ UNCHANGED <<pollPc, healPc, healCancel, healSeen, healRound, store,
                   refreshSeen, keysVars, trackerVars, taskVars, apiVars, ctorVars,
                   fmtVars, autoVars, chunkVars, writerVars, cooldownVars>>

\* the sleep of call i ends: the loop test and the next turn, or the finally
\* block (lines 483-504)
LoopWake(i, cfg) ==
    /\ pollCalls[i].pc = "sleeping"
    /\ LET t == LoopTurn(pollCalls[i], _is_polling, cfg)
       IN /\ pollCalls' = [pollCalls EXCEPT ![i] = t.call]
          /\ _is_polling' = t.polling
    /\ UNCHANGED <<pollPc, healPc, healCancel, healSeen, healRound, stopped, store,
                   refreshSeen, keysVars, trackerVars, taskVars, apiVars, ctorVars,
                   fmtVars, autoVars, chunkVars, writerVars, cooldownVars>>

\* "await heal_task" of call i returns once its heal_task is done
LoopResume(i) ==
    /\ pollCalls[i].pc = "awaiting_heal"
    /\ HealDone(pollCalls[i].heal)
    /\ pollCalls' = [pollCalls EXCEPT ![i].pc = "returned"]
    /\ UNCHANGED <<pollVars, keysVars, trackerVars, taskVars, apiVars, ctorVars,
                   fmtVars, autoVars, chunkVars, writerVars, cooldownVars>>

\* the heal_task of call i starts (lines 282-297), or was cancelled before
MonitorStart(i) ==
    /\ pollCalls[i].heal = "scheduled"
    /\ pollCalls' = [pollCalls EXCEPT
                       ![i].heal = IF pollCalls[i].cancel THEN "cancelled"
                                   ELSE HealLoopTest(_is_polling),
                       ![i].cancel = FALSE]
    /\ UNCHANGED <<pollVars, keysVars, trackerVars, taskVars, apiVars, ctorVars,
                   fmtVars, autoVars, chunkVars, writerVars, cooldownVars>>

\* the sleep of the heal_task of call i ends: a pending cancellation is caught
\* at line 356 (break); else the check runs and the loop test follows
MonitorWake(i) ==
    /\ pollCalls[i].heal = "sleeping"
    /\ HealDecision(FALSE, FullPool, "none", registerTasks, register_current).outcome
           = "enough"
    /\ pollCalls' = [pollCalls EXCEPT
                       ![i].heal = IF pollCalls[i].cancel THEN "done"
                                   ELSE HealLoopTest(_is_polling),
                       ![i].cancel = FALSE]
    /\ UNCHANGED <<pollVars, keysVars, trackerVars, taskVars, apiVars, ctorVars,
                   fmtVars, autoVars, chunkVars, writerVars, cooldownVars>>

\* no call of start_polling was made
IdleLoops == pollCalls = <<>>

(***************************************************************************)
(* The account's failure cooldown. core/account.py is not among the files; *)
(* the entry, record_failure and select are written as spec.md 4.1 and 4.3 *)
(* describe them. login_service.py reads the outcome through               *)
(* acc.should_retry() (line 327).                                          *)
(***************************************************************************)
\* the configured threshold and cooldown_duration, and the last time modelled
FailureThreshold == 3
CooldownDuration == 2
MaxTime == 6

NoCooldown == [set |-> FALSE, at |-> 0]
Until(t) == [set |-> TRUE, at |-> t]

\* a variant that never excludes the account
NeverInCooldown(until, t) == FALSE

\* the account is excluded until cooldown_until passes
InCooldown(until, t) == until.set /\ t < until.at

\* acc.should_retry(): the account may be used at time t
should_retry(until, t) == ~InCooldown(until, t)

\* AccountPool.select() over the one account: it or NotAvailable
select(until, t) == IF should_retry(until, t) THEN "account" ELSE "NotAvailable"

\* CredentialCache.record_failure at time t: the counter is incremented; once
\* the threshold is crossed cooldown_until = now + cooldown_duration
cache_record_failure(count, until, t) ==
    [consecutive_failures |-> count + 1,
     cooldown_until |-> IF count + 1 >= FailureThreshold
                        THEN Until(t + CooldownDuration) ELSE until]

\* a successful call resets the counter to zero
cache_record_success(count, until) ==
    [consecutive_failures |-> 0, cooldown_until |-> until]

NoSelect == [at |-> 0, result |-> "none", until |-> NoCooldown]

\* the entry of an account that never failed
IdleCooldown ==
    /\ consecutive_failures = 0
    /\ cooldown_until = NoCooldown
    /\ clock = 0
    /\ inUse = FALSE
    /\ lastSelect = NoSelect

\* time passes
Tick ==
    /\ clock < MaxTime
    /\ clock' = clock + 1
    /\ UNCHANGED <<consecutive_failures, cooldown_until, inUse, lastSelect,
                   keysVars, trackerVars, taskVars, apiVars, pollVars, ctorVars,
                   fmtVars, autoVars, chunkVars, writerVars, pollCalls>>

\* a request asks the pool for an account
Select ==
    /\ ~inUse
    /\ lastSelect' = [at |-> clock, result |-> select(cooldown_until, clock),
                      until |-> cooldown_until]
    /\ inUse' = (select(cooldown_until, clock) = "account")
    /\ UNCHANGED <<consecutive_failures, cooldown_until, clock, keysVars,
                   trackerVars, taskVars, apiVars, pollVars, ctorVars, fmtVars,
                   autoVars, chunkVars, writerVars, pollCalls>>

\* the call on the selected account fails
CallFails ==
    /\ inUse
    /\ LET r == cache_record_failure(consecutive_failures, cooldown_until, clock)
       IN /\ consecutive_failures' = r.consecutive_failures
          /\ cooldown_until' = r.cooldown_until
    /\ inUse' = FALSE
    /\ UNCHANGED <<clock, lastSelect, keysVars, trackerVars, taskVars, apiVars,
                   pollVars, ctorVars, fmtVars, autoVars, chunkVars, writerVars,
                   pollCalls>>

\* the call on the selected account succeeds
CallSucceeds ==
    /\ inUse
    /\ LET r == cache_record_success(consecutive_failures, cooldown_until)
       IN /\ consecutive_failures' = r.consecutive_failures
          /\ cooldown_until' = r.cooldown_until
    /\ inUse' = FALSE
    /\ UNCHANGED <<clock, lastSelect, keysVars, trackerVars, taskVars, apiVars,
                   pollVars, ctorVars, fmtVars, autoVars, chunkVars, writerVars,
                   pollCalls>>

\* the state of the later groups when nothing of them runs
IdleMore == IdleAuto /\ IdleChunk /\ IdleWriters /\ IdleLoops /\ IdleCooldown

\* the state of the new groups when nothing of them runs
IdleExt == IdlePolling /\ IdleCtor /\ IdleFmt /\ IdleMore

\* the arguments of the calls of the model
StatusCodes == {-1, 0, 200, 302, 400, 401, 403, 404, 408, 418, 429, 500, 501,
                502, 503, 504}
ErrorMessages == {"", "quota exceeded", "boom"}
DetailsArgs == {NoDetails, Details(<<>>), Details(<<"reason">>)}

\* one call of create_error_response on the arguments in errorArgs
CreateErrorResponse ==
    /\ errorArgs.call
    /\ ~errorResp.returned
    /\ errorResp' = create_error_response(errorArgs.status_code, errorArgs.message,
                                          errorArgs.details)
    /\ UNCHANGED <<errorArgs, keysVars, trackerVars, taskVars, apiVars, pollVars,
                   ctorVars, moreVars>>

\* C4: counting from 0 (construction or reset), the record_failure calls that
\* make increments 1.._max_failures return their own count and do not trip, and
\* the call that makes increment _max_failures + 1 trips, however the calls of
\* the threads interleave.
C4_TripsOnlyPastMax ==
    \A t \in Threads :
        tResult[t].kind # "none"
            => /\ tOrdinal[t] <= _max_failures => tResult[t] = Returned(tOrdinal[t])
               /\ tOrdinal[t] = _max_failures + 1 => tResult[t].kind = "SystemExit"

C4_Witness ==
    \E t, u \in Threads :
        /\ t # u
        /\ tResult[t].kind = "SystemExit"
        /\ tOrdinal[t] = _max_failures + 1
        /\ tResult[u] = Returned(_max_failures)
        /\ tOrdinal[u] = _max_failures
        /\ resetsLeft = 0

\* C36: between two resets get_count() is the number of record_failure calls
\* made since the last reset, tripping calls included, however the callers
\* interleave (no increment is lost or made twice); so once a call has
\* tripped, every later call trips too until reset() is called. (increments
\* counts the calls since the last reset; tOrdinal is a call's place in them.)
C36_CountIsNumberOfCalls ==
    /\ _counter_lock = NoThread => get_count = increments
    /\ \A t \in Threads :
          tResult[t].kind # "none"
              => (tOrdinal[t] > _max_failures <=> tResult[t].kind = "SystemExit")

\* with no reset made, two calls have tripped one after the other and
\* get_count() is _max_failures + 2
C36_Witness ==
    /\ _counter_lock = NoThread
    /\ resetsLeft = MaxResets
    /\ get_count = _max_failures + 2
    /\ \E t, u \in Threads :
          /\ tResult[t] = SystemExit(_max_failures + 1)
          /\ tResult[u] = SystemExit(_max_failures + 2)

(***************************************************************************)
(* The inputs of get_conversation_keys.                                    *)
(***************************************************************************)
Roles == {"user", "assistant"}

Contents == {StrContent("hi"), StrContent(" Hi\n"),
             ListContent(<<[type |-> "text", text |-> "a|user:b"],
                           [type |-> "image_url", text |-> ""]>>)}

Messages == {Msg(r, c) : r \in Roles, c \in Contents}

ClientIds == {"", "c1", "c2"}

\* the five-message scenario with three user turns
ScenarioHistory ==
    <<Msg("user", StrContent("hi")), Msg("assistant", StrContent("hello")),
      Msg("user", StrContent("how are you")), Msg("assistant", StrContent("fine")),
      Msg("user", StrContent("tell me more"))>>

Histories == SeqsUpTo(Messages, MaxLen) \cup {ScenarioHistory}

\* one call of get_conversation_keys(messages, client_identifier)
GetConversationKeys ==
    /\ keysPc = "ready"
    /\ keys' = get_conversation_keys(messages, client_identifier)
    /\ keysPc' = "returned"
    /\ UNCHANGED <<messages, client_identifier, trackerVars, taskVars, apiVars, extVars>>

(***************************************************************************)
(* Conversation keys: the claims.                                          *)
(***************************************************************************)
\* the shortest prefix of h that holds n user messages (1 <= n <= UserCount(h))
PrefixThroughUser(h, n) ==
    LET k == CHOOSE k \in 0..Len(h) :
                 /\ UserCount(SubSeq(h, 1, k)) = n
                 /\ \A j \in 0..(k - 1) : UserCount(SubSeq(h, 1, j)) < n
    IN SubSeq(h, 1, k)

\* C6: for every history with fewer than 3 user messages the call returns
\* force_new = true and lookup_key = store_key.
C6_FewUserTurnsForceNew ==
    (keysPc = "returned" /\ UserCount(messages) < 3)
        => (keys.force_new /\ keys.lookup_key = keys.store_key)

C6_Witness ==
    /\ keysPc = "returned"
    /\ UserCount(messages) = 2
    /\ Len(messages) > 2
    /\ keys.force_new
    /\ keys.lookup_key = keys.store_key

\* C7: cache continuity: with at least 3 user messages, the lookup_key of H is
\* the store_key computed for H cut after its second-to-last user message.
C7_CacheContinuity ==
    (keysPc = "returned" /\ UserCount(messages) >= 3)
        => keys.lookup_key =
             get_conversation_keys(
                 PrefixThroughUser(messages, UserCount(messages) - 1),
                 client_identifier).store_key

C7_Witness ==
    /\ keysPc = "returned"
    /\ UserCount(messages) >= 3
    /\ client_identifier # ""
    /\ keys.lookup_key # keys.store_key
    /\ keys.lookup_key =
         get_conversation_keys(
             PrefixThroughUser(messages, UserCount(messages) - 1),
             client_identifier).store_key

\* the general part of C8: force_new = false, lookup_key = the hash over the
\* messages through the second-to-last user message, store_key = the hash over
\* the messages through the last user message
KeysOverPrefixes ==
    (keysPc = "returned" /\ UserCount(messages) >= 3)
        => /\ keys.force_new = FALSE
           /\ keys.lookup_key =
                _hash_key(KeyParts(PrefixThroughUser(messages, UserCount(messages) - 1)),
                          client_identifier)
           /\ keys.store_key =
                _hash_key(KeyParts(PrefixThroughUser(messages, UserCount(messages))),
                          client_identifier)

\* C8 as stated: the general part, and in the five-message scenario with three
\* user turns lookup_key covers the first 4 messages and store_key all 5.
C8_ScenarioLookupCoversFour ==
    /\ KeysOverPrefixes
    /\ (keysPc = "returned" /\ messages = ScenarioHistory)
         => /\ keys.lookup_key =
                 _hash_key(KeyParts(SubSeq(messages, 1, 4)), client_identifier)
            /\ keys.store_key =
                 _hash_key(KeyParts(SubSeq(messages, 1, 5)), client_identifier)

\* C8 amended: the general part, and in the five-message scenario lookup_key
\* covers the first 3 messages (through the second user message) and store_key
\* all 5.
C8_KeysOverPrefixes ==
    /\ KeysOverPrefixes
    /\ (keysPc = "returned" /\ messages = ScenarioHistory)
         => /\ keys.lookup_key =
                 _hash_key(KeyParts(SubSeq(messages, 1, 3)), client_identifier)
            /\ keys.store_key =
                 _hash_key(KeyParts(SubSeq(messages, 1, 5)), client_identifier)
            /\ client_identifier = ""
                 => /\ keys.lookup_key.text = "user:hi|assistant:hello|user:how are you"
                    /\ keys.store_key.text =
                         "user:hi|assistant:hello|user:how are you|assistant:fine"
                             \o "|user:tell me more"

C8_Witness ==
    /\ keysPc = "returned"
    /\ messages = ScenarioHistory
    /\ client_identifier = ""
    /\ keys.force_new = FALSE
    /\ keys.store_key = _hash_key(KeyParts(ScenarioHistory), "")

\* C10: for an empty history the call returns force_new = true and the same
\* sentinel key twice, a sentinel no other client identifier shares.
C10_EmptyHistorySentinel ==
    (keysPc = "returned" /\ messages = <<>>)
        => /\ keys.force_new
           /\ keys.lookup_key = keys.store_key
           /\ keys.store_key.digest = FALSE
           /\ \A c \in ClientIds \ {client_identifier} :
                 get_conversation_keys(<<>>, c).store_key # keys.store_key

C10_Witness ==
    /\ keysPc = "returned"
    /\ messages = <<>>
    /\ client_identifier = "c1"
    /\ keys.store_key.text = "c1:empty"

\* the letters of the model's texts in upper case
CapitalChar(c) ==
    CASE c = "a" -> "A"
      [] c = "b" -> "B"
      [] c = "h" -> "H"
      [] c = "i" -> "I"
      [] OTHER -> c

RECURSIVE Capitals(_)
Capitals(s) == IF Len(s) = 0 THEN "" ELSE CapitalChar(CharAt(s, 1)) \o Capitals(Tail(s))

ImagePart == [type |-> "image_url", text |-> ""]

\* a content that differs from c only in letter case ("case"), in leading and
\* trailing whitespace ("space"), or in its non-text parts ("parts": an
\* image_url part more, or the text alone where there were such parts)
VariedContent(c, how) ==
    IF c.kind = "str"
    THEN CASE how = "case" -> StrContent(Capitals(c.value))
           [] how = "space" -> StrContent("\t " \o c.value \o " \n")
           [] how = "parts" -> ListContent(<<ImagePart,
                                             [type |-> "text", text |-> c.value],
                                             ImagePart>>)
    ELSE CASE how = "case" ->
                ListContent([i \in 1..Len(c.parts) |->
                                [c.parts[i] EXCEPT !.text = Capitals(@)]])
           [] how = "space" ->
                ListContent(<<[type |-> "text", text |-> " \n"]>> \o c.parts
                                \o <<[type |-> "text", text |-> "\t "]>>)
           [] how = "parts" ->
                ListContent(SelectSeq(c.parts, LAMBDA x : x.type = "text"))

Variations == {"case", "space", "parts"}

\* the histories that differ from h in one way, in one message or in all
HistoryVariants(h) ==
    {[i \in 1..Len(h) |-> IF i \in at THEN Msg(h[i].role, VariedContent(h[i].content, how))
                                       ELSE h[i]] :
        how \in Variations,
        at \in {{i} : i \in 1..Len(h)} \cup {1..Len(h)}}

\* C37: conversation keys depend only on the role and the normalized text of
\* each message: a history that differs from the one given only in the letter
\* case of message text, in leading or trailing whitespace of message text, or
\* in the non-text parts of multimodal content gets the same lookup_key,
\* store_key and force_new.
C37_KeysIgnoreCaseSpaceAndParts ==
    keysPc = "returned"
        => \A v \in HistoryVariants(messages) :
               get_conversation_keys(v, client_identifier) = keys

\* a history of three user turns with differently written messages, keys over
\* two different prefixes, and variants that are other histories
C37_Witness ==
    /\ keysPc = "returned"
    /\ UserCount(messages) = 3
    /\ keys.lookup_key # keys.store_key
    /\ \E i, j \in 1..Len(messages) :
          /\ messages[i].content = StrContent(" Hi\n")
          /\ messages[j].content.kind = "list"
    /\ \E v \in HistoryVariants(messages) :
          /\ v # messages
          /\ \A i \in 1..Len(v) : v[i].content # messages[i].content

\* what a key is meant to stand for: the (role, normalized text) pairs of
\* the messages hashed
Conversation(msgs) ==
    [i \in 1..Len(msgs) |->
        [role |-> msgs[i].role, text |-> _normalize_message_text(msgs[i].content)]]

\* the messages get_conversation_keys hashes into store_key and lookup_key
StoreMessages(h) == _truncate_messages_to_nth_user(h, UserCount(h))
LookupMessages(h) ==
    IF UserCount(h) >= 3 THEN _truncate_messages_to_nth_user(h, UserCount(h) - 1)
    ELSE StoreMessages(h)

\* other requests: short histories over the model's messages and over the
\* texts "a" and "b", from any client
OtherHistories ==
    SeqsUpTo(Messages \cup {Msg("user", StrContent("a")), Msg("user", StrContent("b"))}, 2)

\* C38: key isolation: two requests get the same store_key, or the same
\* lookup_key, only if they have the same client_identifier and the same
\* sequence of (role, normalized text) up to the user message the key covers,
\* also when texts, roles or client identifiers hold the separators '|' and ':'.
C38_KeysIsolateConversations ==
    (keysPc = "returned" /\ messages # <<>>)
        => \A c \in ClientIds, h \in OtherHistories \ {<<>>} :
              LET other == get_conversation_keys(h, c)
              IN /\ other.store_key = keys.store_key
                    => /\ c = client_identifier
                       /\ Conversation(StoreMessages(h))
                              = Conversation(StoreMessages(messages))
                 /\ other.lookup_key = keys.lookup_key
                    => /\ c = client_identifier
                       /\ Conversation(LookupMessages(h))
                              = Conversation(LookupMessages(messages))

(***************************************************************************)
(* The task services: the claims.                                          *)
(***************************************************************************)
\* C1: a start_login call made while a login task is Running fails and creates
\* no task; once every login task is terminal, a start_login call succeeds.
C1_RunningLoginBlocksStart ==
    /\ [][Len(loginTasks') > Len(loginTasks) => Running(loginTasks) = {}]_vars
    /\ [](NonTerminal(loginTasks) = {}
            => start_login(loginTasks, login_current, <<1>>).raised = "")

\* C2: at most one login task is non-terminal (Pending or Running) at any time.
C2_AtMostOneNonTerminalLogin == Cardinality(NonTerminal(loginTasks)) <= 1

\* C3: at most one register task is non-terminal at any time, and a
\* start_register call creates a task only when none is Pending or Running.
C3_AtMostOneNonTerminalRegister ==
    /\ [](Cardinality(NonTerminal(registerTasks)) <= 1)
    /\ [][Len(registerTasks') > Len(registerTasks)
            => NonTerminal(registerTasks) = {}]_vars
    /\ [][(lastStart'.outcome = "register task already running"
             /\ lastStart' # lastStart)
            => /\ NonTerminal(registerTasks) # {}
               /\ registerTasks' = registerTasks]_vars

C3_Witness ==
    /\ lastStart = [kind |-> "register", outcome |-> "register task already running"]
    /\ Len(registerTasks) = 2
    /\ registerTasks[1].status \in TerminalStatuses
    /\ registerTasks[1].pc = "finalizing"
    /\ registerTasks[2].status = "running"
    /\ register_current = 2

\* a task in whose item the failure tracker tripped: the item is not recorded
\* and the signal is on its way out of the task body
TripPropagates(t) ==
    t.tripped > 0
        => /\ t.progress < t.tripped
           /\ Len(t.results) < t.tripped
           /\ t.pc \in {"awaiting", "finalizing", "raised"}
           /\ t.pc = "awaiting" => (t.future.state = "done"
                                      /\ t.future.signal = "SystemExit")
           /\ t.pc = "raised" => ~alive

\* C5: when record_failure trips during a login or register item, the signal
\* leaves login_and_extract, the per-item worker and the task body: the item is
\* never recorded as a failed result and no later item is processed.
C5_FatalSignalPropagates ==
    /\ \A k \in 1..Len(loginTasks) : TripPropagates(loginTasks[k])
    /\ \A k \in 1..Len(registerTasks) :
          /\ TripPropagates(registerTasks[k])
          /\ (registerTasks[k].tripped > 0 /\ registerTasks[k].pc = "finalizing")
                => registerTasks[k].raising

C5_Witness ==
    /\ ~alive
    /\ \E k \in 1..Len(loginTasks) :
          /\ loginTasks[k].tripped = 2
          /\ loginTasks[k].pc = "raised"
          /\ loginTasks[k].progress = 1
    /\ \E k \in 1..Len(registerTasks) :
          /\ registerTasks[k].tripped = 1
          /\ registerTasks[k].future.signal = "SystemExit"

\* a terminal task is Success exactly when no item failed
TerminalConsistent(t) ==
    t.status \in TerminalStatuses
        => /\ t.status = "success" <=> t.fail_count = 0
           /\ t.status = "failed" <=> t.fail_count # 0

\* a terminal task keeps its status and its fail_count over a step
StaysTerminal(t, u) ==
    t.status \in TerminalStatuses
        => /\ u.status = t.status
           /\ u.fail_count = t.fail_count

\* C18: a Login or Register task in a terminal state is Success iff its
\* fail_count is 0 and Failed otherwise, and it never leaves the terminal state.
C18_TerminalStatusMatchesFailCount ==
    /\ [](/\ \A k \in 1..Len(loginTasks) : TerminalConsistent(loginTasks[k])
          /\ \A k \in 1..Len(registerTasks) : TerminalConsistent(registerTasks[k]))
    /\ [][/\ \A k \in 1..Len(loginTasks) :
                StaysTerminal(loginTasks[k], loginTasks'[k])
          /\ \A k \in 1..Len(registerTasks) :
                StaysTerminal(registerTasks[k], registerTasks'[k])]_vars

C18_Witness ==
    /\ \E k \in 1..Len(loginTasks) :
          /\ loginTasks[k].status = "failed"
          /\ loginTasks[k].fail_count = 1
          /\ loginTasks[k].success_count = 1
    /\ \E k \in 1..Len(registerTasks) :
          /\ registerTasks[k].status = "success"
          /\ registerTasks[k].pc = "done"
          /\ registerTasks[k].progress = 1

\* the item the body of login task t is about to take failed: the worker
\* returned a failure or raised an Exception
ItemFailed(t) ==
    /\ t.pc = "awaiting"
    /\ t.future.state = "done"
    /\ \/ t.future.signal = "Exception"
       \/ t.future.signal = "return" /\ ~t.future.success

\* C19: a login task over n account ids processes all n items: a failed item
\* (failure returned, or an Exception raised by the worker) is recorded as a
\* failed result and the body goes on; a terminal task has progress = n and n
\* results; recorded results are never removed.
C19_LoginProcessesAllItems ==
    /\ [](\A k \in 1..Len(loginTasks) :
            loginTasks[k].status \in TerminalStatuses
                => /\ loginTasks[k].progress = Len(loginTasks[k].account_ids)
                   /\ Len(loginTasks[k].results) = Len(loginTasks[k].account_ids))
    /\ [][\A k \in 1..Len(loginTasks) :
            LET t == loginTasks[k]
                u == loginTasks'[k]
            IN /\ Len(u.results) >= Len(t.results)
               /\ SubSeq(u.results, 1, Len(t.results)) = t.results
               /\ (ItemFailed(t) /\ u # t)
                    => /\ u.results = Append(t.results,
                                             [success |-> FALSE,
                                              email |-> t.account_ids[t.progress + 1]])
                       /\ u.progress = t.progress + 1
                       /\ IF u.progress < Len(u.account_ids)
                          THEN u.pc = "awaiting" /\ u.future.state = "pending"
                          ELSE u.status = "failed"]_vars

C19_Witness ==
    \E k \in 1..Len(loginTasks) :
        /\ loginTasks[k].status = "failed"
        /\ Len(loginTasks[k].account_ids) = 2
        /\ Len(loginTasks[k].results) = 2
        /\ ~loginTasks[k].results[1].success
        /\ loginTasks[k].results[2].success

\* the counters of a task agree with its results and stay within its items
CountersAgree(t, items) ==
    /\ t.progress = t.success_count + t.fail_count
    /\ t.progress = Len(t.results)
    /\ t.progress <= items

\* C20: in every state between item steps, progress = success_count +
\* fail_count = len(results), progress never decreases and never exceeds the
\* number of items (len(account_ids) or count).
C20_ProgressCountsResults ==
    /\ [](/\ \A k \in 1..Len(loginTasks) :
                CountersAgree(loginTasks[k], Len(loginTasks[k].account_ids))
          /\ \A k \in 1..Len(registerTasks) :
                CountersAgree(registerTasks[k], registerTasks[k].count))
    /\ [][/\ \A k \in 1..Len(loginTasks) :
                loginTasks'[k].progress >= loginTasks[k].progress
          /\ \A k \in 1..Len(registerTasks) :
                registerTasks'[k].progress >= registerTasks[k].progress]_vars

C20_Witness ==
    /\ \E k \in 1..Len(loginTasks) :
          /\ loginTasks[k].progress = 1
          /\ loginTasks[k].fail_count = 1
    /\ \E k \in 1..Len(registerTasks) :
          /\ registerTasks[k].progress = 2
          /\ registerTasks[k].success_count = 1
          /\ registerTasks[k].fail_count = 1

\* the success / failure lines of a task's log, in log order
ItemLines(t) ==
    SelectSeq(t.log, LAMBDA l : l.text \in {"refresh success", "refresh failed"})

\* results and item log lines of login task t follow account_ids
InSubmissionOrder(t) ==
    /\ Len(t.results) = t.progress
    /\ Len(ItemLines(t)) = t.progress
    /\ \A i \in 1..t.progress :
          /\ t.results[i].email = t.account_ids[i]
          /\ ItemLines(t)[i].account_id = t.account_ids[i]
          /\ ItemLines(t)[i].text =
                IF t.results[i].success THEN "refresh success" ELSE "refresh failed"

\* C21: within one login task, for every i below progress results[i] is the
\* outcome for account_ids[i] and the i-th success / failure log line is about
\* account_ids[i]; results and log only grow at their end, so the line of item i
\* is appended before that of item i + 1.
C21_ResultsInSubmissionOrder ==
    /\ [](\A k \in 1..Len(loginTasks) : InSubmissionOrder(loginTasks[k]))
    /\ [][\A k \in 1..Len(loginTasks) :
            LET t == loginTasks[k]
                u == loginTasks'[k]
            IN /\ Len(u.log) >= Len(t.log)
               /\ SubSeq(u.log, 1, Len(t.log)) = t.log
               /\ Len(u.results) >= Len(t.results)
               /\ SubSeq(u.results, 1, Len(t.results)) = t.results]_vars

C21_Witness ==
    \E k \in 1..Len(loginTasks) :
        LET t == loginTasks[k]
        IN /\ t.status = "failed"
           /\ t.account_ids = <<1, 2>>
           /\ ~t.results[1].success /\ t.results[2].success
           /\ ItemLines(t) = <<LogLine("error", "refresh failed", 1),
                               LogLine("info", "refresh success", 2)>>

\* the worker of login task k returns from a login_and_extract call that
\* succeeded
AcquisitionSucceeds(k) ==
    /\ loginTasks[k].future.state = "pending"
    /\ loginTasks'[k].future.state = "done"
    /\ loginTasks'[k].future.signal = "return"
    /\ loginTasks'[k].future.success

\* C28: a successful credential acquisition resets the global browser-failure
\* counter: after a login_and_extract call that returns success the counter
\* reads 0.
C28_SuccessResetsCounter ==
    [][\A k \in 1..Len(loginTasks) : AcquisitionSucceeds(k) => _failure_count' = 0]_vars

(***************************************************************************)
(* The upstream calls: the claims.                                         *)
(***************************************************************************)
\* the requests one invocation of make_request_with_jwt_retry sent: the call
\* itself (attempt 0) or attempt a of a download
ReqsOf(a) == SelectSeq(requests, LAMBDA q : q.attempt = a)

InvocationRetriesOnlyOn401(a) ==
    LET rs == ReqsOf(a)
    IN /\ Len(rs) <= 2
       /\ Len(rs) = 2
            => /\ rs[1].reply.kind = "response"
               /\ rs[1].reply.status = 401
               /\ rs[2].jwt = rs[1].jwt + 1
       /\ (Len(rs) >= 1 /\ rs[1].reply.kind = "response" /\ rs[1].reply.status # 401)
            => Len(rs) = 1

\* C11: make_request_with_jwt_retry sends one request with a token acquired for
\* it; iff the response is 401 it acquires a token again and sends exactly one
\* more request; the last response is returned unchanged: at most two requests
\* per call, and no retry of a response that is not 401.
C11_RetryOnceOn401 ==
    fn \in {"make_request_with_jwt_retry", "download_image_with_jwt"}
        => /\ \A a \in 0..attempt : InvocationRetriesOnlyOn401(a)
           /\ \A i \in 1..Len(requests) :
                 /\ requests[i].jwt \in 1..jwt_count
                 /\ \A j \in 1..(i - 1) : requests[j].jwt < requests[i].jwt
           /\ (fn = "make_request_with_jwt_retry" /\ outcome.kind = "return")
                => /\ Len(requests) \in 1..2
                   /\ jwt_count = Len(requests)
                   /\ outcome.resp = requests[Len(requests)].reply
                   /\ outcome.resp.kind = "response"
                   /\ requests[1].reply.status = 401 <=> Len(requests) = 2

C11_Witness ==
    /\ fn = "make_request_with_jwt_retry"
    /\ apiPc = "done"
    /\ Len(requests) = 2
    /\ requests[1].reply.status = 401
    /\ requests[2].reply.status = 401
    /\ outcome.kind = "return"
    /\ outcome.resp.status = 401
    /\ outcome.resp.content = 2

C13_BackoffTwoThenFour ==
    fn = "download_image_with_jwt"
        => /\ (max_retries = DefaultMaxRetries /\ apiPc = "done"
                 /\ failures = <<"timeout", "timeout">>)
                => /\ outcome.kind = "return" => sleeps = <<2, 4>>
                   /\ outcome.kind \in {"return", "raise"}
           /\ (apiPc = "done" /\ max_retries > 0 /\ Len(failures) = max_retries)
                => Len(sleeps) = max_retries - 1

\* the reply is a 400 whose body carries a Model Armor violation
ArmorReply(r) ==
    /\ r.kind = "response"
    /\ r.status = 400
    /\ r.payload.json
    /\ _extract_model_armor_violation(r.payload) # 0

\* C14: when an upload finally fails, a 400 whose payload carries a
\* MODEL_ARMOR_VIOLATION details item gives type model_armor_violation, status
\* 400 and retriable = false; every failure wrapped as upstream_error has
\* retriable = (status >= 500).
C14_RetriableFlag ==
    (fn = "upload_context_file" /\ apiPc = "done" /\ outcome.exc = "HTTPException")
        => /\ ArmorReply(resp)
                => /\ outcome.type = "model_armor_violation"
                   /\ outcome.status = 400
                   /\ outcome.has_retriable
                   /\ ~outcome.retriable
           /\ outcome.type = "upstream_error"
                => /\ outcome.has_retriable
                   /\ outcome.retriable <=> outcome.status >= 500

\* C15 as stated: after a safety-filter rejection no repeated attempt is made:
\* exactly one upload request is sent for the call.
C15_NoRepeatedUpload ==
    (fn = "upload_context_file"
       /\ \E i \in 1..Len(requests) : ArmorReply(requests[i].reply))
        => Len(requests) = 1

\* C15 amended: after a safety-filter rejection of the first upload exactly one
\* repeated attempt is made, with the content base64-encoded once more (none
\* when the content is empty); a call sends at most two upload requests, and
\* the rejection of the second one is raised.
C15_RetriesOnceReencoded ==
    fn = "upload_context_file"
        => /\ Len(requests) <= 2
           /\ Len(requests) = 2
                => /\ ArmorReply(requests[1].reply)
                   /\ requests[1].content = base64_content
                   /\ requests[2].content = B64Encode(base64_content)
                   /\ requests[2].content # requests[1].content
                   /\ requests[2].jwt = requests[1].jwt + 1
           /\ (apiPc = "done" /\ Len(requests) >= 1 /\ ArmorReply(requests[1].reply)
                 /\ outcome.exc # "get_jwt error")
                => Len(requests) = IF base64_content = "" THEN 1 ELSE 2
           /\ (apiPc = "done" /\ Len(requests) = 2 /\ ArmorReply(requests[2].reply))
                => outcome.exc = "HTTPException" /\ outcome.status = 400

C15_Witness ==
    /\ fn = "upload_context_file"
    /\ apiPc = "done"
    /\ Len(requests) = 2
    /\ ArmorReply(requests[1].reply)
    /\ ArmorReply(requests[2].reply)
    /\ requests[2].content = "UVE9PQ=="
    /\ outcome.type = "model_armor_violation"

\* 4xx other than 401 and 429
Permanent4xx == {st \in Statuses : st >= 400 /\ st < 500 /\ st \notin {401, 429}}

\* C16: a 4xx response other than 401 or 429 to a binary download is raised
\* after that single attempt: no backoff wait and no further attempt follows.
C16_PermanentErrorNotRetried ==
    fn = "download_image_with_jwt"
        => \A i \in 1..Len(requests) :
              (requests[i].reply.kind = "response"
                 /\ requests[i].reply.status \in Permanent4xx)
                  => /\ i = Len(requests)
                     /\ Len(sleeps) <= requests[i].attempt
                     /\ apiPc \in {"mr_end", "done"}
                     /\ apiPc = "done" => outcome.kind = "raise"

\* C17: a 401 on session creation or on context-file upload is answered by a
\* new token and one retry; the caller sees the 401 only when the retried
\* request failed too.
C17_Recovers401Locally ==
    (fn \in {"create_google_session", "upload_context_file"} /\ apiPc = "done"
       /\ resp.kind = "response" /\ resp.status = 401)
        => /\ Len(requests) >= 2
           /\ requests[Len(requests) - 1].reply.kind = "response"
           /\ requests[Len(requests) - 1].reply.status = 401
           /\ requests[Len(requests)].jwt > requests[Len(requests) - 1].jwt

(***************************************************************************)
(* check_and_refresh: the inputs and the claims.                           *)
(***************************************************************************)
\* the mailbox fields of an account: provider, client id, refresh token, password
MailProfiles ==
    {<<"", "", "", "pw">>,                \* duckmail by default, with a password
     <<"", "", "", "">>,                  \* duckmail by default, no password
     <<"microsoft", "cid", "rt", "">>,    \* microsoft, complete
     <<"", "cid", "", "">>,               \* microsoft by its fields, no refresh token
     <<"chatgpt_mail", "", "", "">>}

ExpiryValues == {NoExpiry, BadExpiry} \cup {ExpiresAt(h) : h \in 0..(MaxClock + 2)}

AccountsWithId(id) ==
    {Account(id, d, e, m[1], m[2], m[3], m[4]) :
        d \in BOOLEAN, e \in ExpiryValues, m \in MailProfiles}

\* the accounts of the two-account stores: expired or expiring at the latest
\* check, with or without a mailbox password
PairAccounts(id) ==
    {Account(id, FALSE, e, m[1], m[2], m[3], m[4]) :
        e \in {ExpiresAt(0), ExpiresAt(MaxClock + 1)},
        m \in {<<"", "", "", "pw">>, <<"", "", "", "">>}}

\* the stores of the model: empty, one account, two accounts with different ids
Stores ==
    {<<>>} \cup {<<a>> : a \in AccountsWithId(1)}
        \cup {<<a, b>> : a \in PairAccounts(1), b \in PairAccounts(2)}

Windows == {0, 1}

\* expires_at names a time before the check
InThePast(a, now) == a.expires_at.kind = "time" /\ a.expires_at.at < now

\* the remaining lifetime is between 0 and the refresh window
Expiring(a, now, window) ==
    /\ a.expires_at.kind = "time"
    /\ a.expires_at.at - now >= 0
    /\ a.expires_at.at - now <= window

StoreIds == {store[i].id : i \in 1..Len(store)}

SubmittedIds ==
    IF refreshSeen.submitted
    THEN {refreshSeen.accounts_to_refresh[i] :
              i \in 1..Len(refreshSeen.accounts_to_refresh)}
    ELSE {}

\* the last check ran with ACCOUNTS_CONFIG unset, met no error, and start_login
\* took what it was handed
CleanCheck ==
    /\ refreshSeen.done
    /\ ~refreshSeen.env
    /\ refreshSeen.fault = "none"
    /\ refreshSeen.submitted \/ Len(refreshSeen.accounts_to_refresh) = 0

\* C27: after a check (ACCOUNTS_CONFIG unset), every non-disabled account whose
\* expires_at was in the past is gone from the store and was not submitted for
\* refresh; every non-disabled account with a remaining lifetime between 0 and
\* refresh_window_hours (and the mailbox credentials a refresh needs) was
\* submitted and is still in the store; no account is both removed and
\* submitted.
C27_ImmediateDeletion ==
    CleanCheck
        => \A i \in 1..Len(refreshSeen.accounts) :
              LET a == refreshSeen.accounts[i]
              IN /\ (~a.disabled /\ InThePast(a, refreshSeen.now))
                      => a.id \notin StoreIds /\ a.id \notin SubmittedIds
                 /\ (/\ ~a.disabled
                     /\ has_credentials(a)
                     /\ Expiring(a, refreshSeen.now, refreshSeen.window))
                      => a.id \in SubmittedIds /\ a.id \in StoreIds
                 /\ ~(a.id \notin StoreIds /\ a.id \in SubmittedIds)

(***************************************************************************)
(* The singleton: the claims.                                              *)
(***************************************************************************)
\* at most one object is made, whatever the interleaving
OneInstanceMade == _instance.made <= 1

Taxonomy(code) ==
    CASE code = 400 -> "INVALID_ARGUMENT"
      [] code = 401 -> "UNAUTHENTICATED"
      [] code = 403 -> "PERMISSION_DENIED"
      [] code = 404 -> "NOT_FOUND"
      [] code = 429 -> "RESOURCE_EXHAUSTED"
      [] code = 500 -> "INTERNAL"
      [] code = 503 -> "UNAVAILABLE"
      [] code = 504 -> "DEADLINE_EXCEEDED"
      [] OTHER -> "UNKNOWN"

\* C30: create_error_response maps every status to the fixed taxonomy (any
\* status outside the eight listed ones to UNKNOWN) and returns
\* {error: {code, message, status}} with code equal to the input status and
\* the message given, with details only when details are supplied.
C30_ErrorTaxonomy ==
    errorResp.returned
        => /\ errorResp.code = errorArgs.status_code
           /\ errorResp.message = errorArgs.message
           /\ errorResp.status = Taxonomy(errorArgs.status_code)
           /\ errorResp.has_details
                 => /\ errorArgs.details.given
                    /\ errorResp.details = errorArgs.details
           /\ (errorArgs.details.given /\ Len(errorArgs.details.items) > 0)
                 => errorResp.has_details

C30_Witness ==
    /\ errorResp.returned
    /\ errorArgs.status_code = 418
    /\ errorResp.status = "UNKNOWN"
    /\ errorArgs.details = Details(<<>>)
    /\ ~errorResp.has_details

\* the marker names every Running task of the list
MarkerNamesRunning(tasks, current) == \A k \in Running(tasks) : current = k

\* C34: for each kind, whenever a task of that kind is Running, the 'current
\* task id' marker of its service is that task's id; a task that completes
\* does not clear or overwrite the marker while another task of its kind is
\* still Pending or Running.
C34_MarkerNamesRunningTask ==
    /\ MarkerNamesRunning(loginTasks, login_current)
    /\ MarkerNamesRunning(registerTasks, register_current)

\* C35: a register task has status Success only if all of its count items
\* were processed and succeeded (progress = success_count = count); a body
\* that is aborted before it has exhausted its items is never left recorded as
\* Success.
C35_SuccessMeansAllItemsSucceeded ==
    \A k \in 1..Len(registerTasks) :
        registerTasks[k].status = "success"
            => /\ registerTasks[k].progress = registerTasks[k].count
               /\ registerTasks[k].success_count = registerTasks[k].count

(***************************************************************************)
(* The tasks: termination.                                                 *)
(***************************************************************************)
\* login task k is terminal and the marker does not name it
LoginEnded(k) ==
    /\ k <= Len(loginTasks)
    /\ loginTasks[k].status \in TerminalStatuses
    /\ login_current # k

\* register task k is terminal, its body has ended and the marker does not
\* name it
RegisterEnded(k) ==
    /\ k <= Len(registerTasks)
    /\ registerTasks[k].status \in TerminalStatuses
    /\ registerTasks[k].pc \in {"done", "raised"}
    /\ register_current # k

\* every terminal task has processed its whole item list
TerminalTasksExhausted ==
    /\ \A k \in 1..Len(loginTasks) :
          loginTasks[k].status \in TerminalStatuses
              => loginTasks[k].progress = Len(loginTasks[k].account_ids)
    /\ \A k \in 1..Len(registerTasks) :
          registerTasks[k].status \in TerminalStatuses
              => registerTasks[k].progress = registerTasks[k].count

\* every terminal task has processed its whole item list, or it is the
\* register task whose worker tripped the failure tracker
TerminalTasksExhaustedUnlessTripped ==
    /\ \A k \in 1..Len(loginTasks) :
          loginTasks[k].status \in TerminalStatuses
              => loginTasks[k].progress = Len(loginTasks[k].account_ids)
    /\ \A k \in 1..Len(registerTasks) :
          (registerTasks[k].status \in TerminalStatuses /\ registerTasks[k].tripped = 0)
              => registerTasks[k].progress = registerTasks[k].count

\* every task started so far has ended
AllTasksEnded ==
    /\ \A k \in 1..Len(loginTasks) : LoginEnded(k)
    /\ \A k \in 1..Len(registerTasks) : RegisterEnded(k)

C25_MonitorFinishedOnReturn == pollPc = "returned" => HealDone(healPc)

\* start_polling has returned after it cancelled a monitor that had started,
\* and that monitor made a check while it ran
C25_Witness ==
    /\ pollPc = "returned"
    /\ healPc \in {"done", "cancelled"}
    /\ healSeen.checked

\* C26: once stop_polling has been called, the health monitor starts no
\* register task; a monitor that sleeps when stop_polling is called and wakes
\* before the polling loop does makes no call of start_register. (stopped
\* holds from a call of stop_polling to the next call of start_polling, and in
\* these runs only the monitor starts register tasks.)
C26_NoRegisterAfterStop ==
    [][stopped => Len(registerTasks') = Len(registerTasks)]_vars

\* the accounts of a pool that are not disabled, not expired and whose
\* should_retry() is true
RECURSIVE AvailableCount(_)
AvailableCount(pool) ==
    IF Len(pool) = 0 THEN 0
    ELSE (IF ~pool[1].disabled /\ ~pool[1].is_expired /\ pool[1].should_retry
          THEN pool[1].n ELSE 0) + AvailableCount(Tail(pool))

\* the pool holds no account that is neither disabled nor expired
NoCandidate(pool) == \A i \in 1..Len(pool) : pool[i].disabled \/ pool[i].is_expired

\* a register task is Pending or Running
RegisterActive ==
    \E k \in 1..Len(registerTasks) : registerTasks[k].status \in {"pending", "running"}

\* C23: at each check of the health monitor that runs with ACCOUNTS_CONFIG
\* unset and meets no error, with available the number of accounts that are
\* not disabled, not expired and ready to retry: if available < 100 and no
\* register task is active, exactly one register task is started, with count
\* max(1, 100 - available), which is 100 when the pool has no candidate; if a
\* register task is active or available >= 100, none is started.
C23_MonitorStartsOneSizedTask ==
    [][(healRound' # healRound /\ ~healSeen'.env /\ healSeen'.fault = "none") =>
          LET pool == healSeen'.pool
              available == AvailableCount(pool)
              n == Len(registerTasks)
          IN IF available < 100 /\ ~RegisterActive
             THEN /\ Len(registerTasks') = n + 1
                  /\ SubSeq(registerTasks', 1, n) = registerTasks
                  /\ registerTasks'[n + 1].count = Max(1, 100 - available)
                  /\ NoCandidate(pool) => registerTasks'[n + 1].count = 100
                  /\ registerTasks'[n + 1].progress = 0
             ELSE registerTasks' = registerTasks]_vars

\* the monitor has found 99 accounts available after an earlier register task
\* ended, and has started a second task of one account
C23_Witness ==
    /\ healSeen.outcome = "start"
    /\ healSeen.available = 99
    /\ Len(registerTasks) = 2
    /\ registerTasks[1].status \in {"success", "failed"}
    /\ registerTasks[2].count = 1

\* the last check of the monitor met an error: an Exception while it read the
\* pool or the current register task, or start_register failing
CheckErrored == healSeen.outcome \in {"error", "start failed"}

\* C24: an error raised during a check of the health monitor never ends its
\* loop: after a check that met an error, the monitor makes another check,
\* unless polling is switched off in between. (healRound changes at every
\* check.)
C24_MonitorChecksAgainAfterError ==
    \A b \in {0, 1} :
        [](CheckErrored /\ healRound = b => <>(healRound # b \/ ~_is_polling))

\* the monitor met an Exception in a check, slept in its handler and is back in
\* the sleep before its next check, polling still on
C24_Witness ==
    /\ healSeen.outcome = "error"
    /\ healPc = "sleeping"
    /\ _is_polling

(***************************************************************************)
(* Specifications.                                                         *)
(***************************************************************************)
\* one call of get_conversation_keys on every input of the model
InitKeys ==
    /\ messages \in Histories
    /\ client_identifier \in ClientIds
    /\ keys = NoKeys
    /\ keysPc = "ready"
    /\ InitTracker
    /\ IdleTasks
    /\ IdleApi
    /\ IdleExt

NextKeys == GetConversationKeys

SpecKeys == InitKeys /\ [][NextKeys]_vars

\* the threads of the worker pool calling the failure tracker
InitTrackerOnly == IdleKeys /\ InitTracker /\ IdleTasks /\ IdleApi /\ IdleExt

SpecTracker == InitTrackerOnly /\ [][NextTracker]_vars

\* the login and register services with their workers and the failure counter.
\* The counter is process-wide and the services never reset it: when the run
\* starts it holds the earlier browser failures, short of a trip: none, or
\* enough for the next one or two failures to trip.
Init ==
    /\ IdleKeys
    /\ _failure_count \in {0, _max_failures - 1, _max_failures}
    /\ ThreadsIdle
    /\ IdleTasks
    /\ IdleApi
    /\ IdleExt

\* the items the run's bound still allows new tasks to hold
ItemsLeft == MaxItems - (LoginItems(loginTasks) + RegisterItems(registerTasks))

Next ==
    \/ \E ids \in AccountIdLists(Max(1, ItemsLeft)) :
          /\ StartLogin(ids)
          /\ Len(loginTasks') + Len(registerTasks') <= MaxTasks
          /\ LoginItems(loginTasks') + RegisterItems(registerTasks') <= MaxItems
    \/ \E k \in 1..Len(loginTasks) : LoginBodyStart(k)
    \/ \E k \in 1..Len(loginTasks) : LoginWorker(k)
    \/ \E k \in 1..Len(loginTasks) : LoginBodyResume(k)
    \/ \E in \in StartRegisterInputs(Max(1, ItemsLeft)) :
          /\ StartRegister(in.env, in.count, in.default_count)
          /\ Len(loginTasks') + Len(registerTasks') <= MaxTasks
          /\ LoginItems(loginTasks') + RegisterItems(registerTasks') <= MaxItems
    \/ \E k \in 1..Len(registerTasks) : RegisterBodyStart(k)
    \/ \E k \in 1..Len(registerTasks) : RegisterWorker(k)
    \/ \E k \in 1..Len(registerTasks) : RegisterBodyResume(k)
    \/ \E k \in 1..Len(registerTasks) : RegisterFinalize(k)

Spec == Init /\ [][Next]_vars

\* one call of one function of google_api.py with its arguments
InitApi ==
    /\ IdleKeys
    /\ InitTracker
    /\ IdleTasks
    /\ \E call \in ApiCalls(MaxRetries) :
          /\ fn = call.fn
          /\ method = call.method
          /\ max_retries = call.max_retries
          /\ base64_content = call.base64_content
          /\ apiPc = call.pc
    /\ jwt_count = 0
    /\ requests = <<>>
    /\ retried = FALSE
    /\ resp = NoReply
    /\ inner = NoInner
    /\ attempt = 0
    /\ sleeps = <<>>
    /\ failures = <<>>
    /\ outcome = NoOutcome
    /\ IdleExt

NextApi ==
    \/ MrGetJwt
    \/ MrResponse
    \/ MrTransportError
    \/ MrEnd
    \/ DownloadStart
    \/ DownloadTimeout
    \/ DownloadAttemptEnd
    \/ DownloadWake
    \/ UploadGetJwt
    \/ UploadResponse
    \/ UploadTransportError
    \/ SessionGetJwt
    \/ SessionResponse
    \/ SessionTransportError

SpecApi == InitApi /\ [][NextApi]_vars

\* the login service alone, from construction
InitLogin == IdleKeys /\ InitTracker /\ IdleTasks /\ IdleApi /\ IdleExt

NextLogin ==
    \/ \E ids \in AccountIdLists(MaxLoginItems) :
          /\ StartLogin(ids)
          /\ Len(loginTasks') <= MaxLoginTasks
          /\ LoginItems(loginTasks') <= MaxLoginItems
    \/ \E k \in 1..Len(loginTasks) : LoginBodyStart(k)
    \/ \E k \in 1..Len(loginTasks) : LoginWorker(k)
    \/ \E k \in 1..Len(loginTasks) : LoginBodyResume(k)

SpecLogin == InitLogin /\ [][NextLogin]_vars

\* the login service with a store of accounts; check_and_refresh is called
\* again and again while the login tasks it starts run
InitRefresh ==
    /\ IdleKeys
    /\ InitTracker
    /\ IdleTasks
    /\ IdleApi
    /\ IdleCtor
    /\ IdleFmt
    /\ IdleMore
    /\ _is_polling = FALSE
    /\ pollPc = "idle"
    /\ healPc = "none"
    /\ healCancel = FALSE
    /\ healSeen = NoCheck
    /\ healRound = 0
    /\ stopped = FALSE
    /\ store \in Stores
    /\ refreshSeen = NoRefresh

NextRefresh ==
    \/ \E env \in BOOLEAN, now \in ClockReadings(MaxClock), window \in Windows,
          fault \in RefreshFaults :
          /\ CheckAndRefresh(env, now, window, fault)
          /\ Len(loginTasks') <= MaxRefreshTasks
    \/ \E k \in 1..Len(loginTasks) : LoginBodyStart(k)
    \/ \E k \in 1..Len(loginTasks) : LoginWorker(k)
    \/ \E k \in 1..Len(loginTasks) : LoginBodyResume(k)

SpecRefresh == InitRefresh /\ [][NextRefresh]_vars

\* the pools the health monitor meets: empty; accounts none of which is a
\* candidate; candidates none of which is available; 99 and 100 available
Pools ==
    { <<>>,
      <<Group(2, TRUE, FALSE, TRUE), Group(1, FALSE, TRUE, TRUE)>>,
      <<Group(2, FALSE, FALSE, FALSE)>>,
      <<Group(99, FALSE, FALSE, TRUE), Group(3, FALSE, FALSE, FALSE)>>,
      <<Group(100, FALSE, FALSE, TRUE), Group(1, FALSE, TRUE, FALSE)>> }

\* the stores the polling loop meets: empty, or one account with credentials
\* that expired at hour 0
PollStores ==
    { <<>>, <<Account(1, FALSE, ExpiresAt(0), "duckmail", "", "", "pw")>> }

\* the login service with its register service: start_polling, stop_polling,
\* the polling loop, the health monitor and the register tasks it starts. The
\* polling loop's check_and_refresh runs with ACCOUNTS_CONFIG unset at hour 1
\* with a refresh window of 0 hours and meets no error: it deletes the expired
\* account and starts no login task.
InitPolling ==
    /\ IdleKeys
    /\ InitTracker
    /\ IdleTasks
    /\ IdleApi
    /\ IdleCtor
    /\ IdleFmt
    /\ IdleMore
    /\ _is_polling = FALSE
    /\ pollPc = "idle"
    /\ healPc = "none"
    /\ healCancel = FALSE
    /\ healSeen = NoCheck
    /\ healRound = 0
    /\ stopped = FALSE
    /\ store \in PollStores
    /\ refreshSeen = NoRefresh

NextPolling ==
    \/ \E cfg \in PollingConfigs : StartPolling(cfg, FALSE, 1, 0, "none")
    \/ \E cfg \in PollingConfigs : PollWake(cfg, FALSE, 1, 0, "none")
    \/ PollCancel
    \/ PollResume
    \/ StopPolling
    \/ HealStart
    \/ \E env \in BOOLEAN, pool \in Pools, fault \in HealFaults :
          /\ HealCheck(env, pool, fault)
          /\ Len(registerTasks') <= MaxPollTasks
    \/ HealErrorWake
    \/ \E k \in 1..Len(registerTasks) :
          /\ registerTasks[k].count <= MaxPollItems
          /\ RegisterBodyStart(k)
    \/ \E k \in 1..Len(registerTasks) : RegisterWorker(k)
    \/ \E k \in 1..Len(registerTasks) : RegisterBodyResume(k)
    \/ \E k \in 1..Len(registerTasks) : RegisterFinalize(k)

SpecPolling == InitPolling /\ [][NextPolling]_vars

\* the polling loop and the health monitor alone: the register tasks the
\* monitor starts are left waiting for the event loop
NextMonitor ==
    \/ \E cfg \in PollingConfigs : StartPolling(cfg, FALSE, 1, 0, "none")
    \/ \E cfg \in PollingConfigs : PollWake(cfg, FALSE, 1, 0, "none")
    \/ PollCancel
    \/ PollResume
    \/ StopPolling
    \/ HealStart
    \/ \E env \in BOOLEAN, pool \in Pools, fault \in HealFaults :
          /\ HealCheck(env, pool, fault)
          /\ Len(registerTasks') <= MaxPollTasks
    \/ HealErrorWake

\* the event loop runs every task that is ready: a created monitor task gets
\* its first step, and each of its sleeps (600 s, 60 s) ends
MonitorFairness ==
    /\ WF_vars(HealStart)
    /\ WF_vars(\E env \in BOOLEAN, pool \in Pools, fault \in HealFaults :
                  /\ HealCheck(env, pool, fault)
                  /\ Len(registerTasks') <= MaxPollTasks)
    /\ WF_vars(HealErrorWake)

SpecMonitor == InitPolling /\ [][NextMonitor]_vars /\ MonitorFairness

\* the login and register services with their tasks while polling is started
\* and stopped. The failure counter starts one failure short of the trip; the
\* polling loop and the monitor stay in their sleeps.
InitLive ==
    /\ IdleKeys
    /\ _failure_count = _max_failures
    /\ ThreadsIdle
    /\ IdleTasks
    /\ IdleApi
    /\ IdleExt

LiveItemsLeft == MaxLiveItems - (LoginItems(loginTasks) + RegisterItems(registerTasks))

NextLive ==
    \/ \E ids \in AccountIdLists(Max(1, LiveItemsLeft)) :
          /\ StartLogin(ids)
          /\ Len(loginTasks') + Len(registerTasks') <= MaxLiveTasks
          /\ LoginItems(loginTasks') + RegisterItems(registerTasks') <= MaxLiveItems
    \/ \E k \in 1..Len(loginTasks) : LoginBodyStart(k)
    \/ \E k \in 1..Len(loginTasks) : LoginWorker(k)
    \/ \E k \in 1..Len(loginTasks) : LoginBodyResume(k)
    \/ \E in \in StartRegisterInputs(Max(1, LiveItemsLeft)) :
          /\ StartRegister(in.env, in.count, in.default_count)
          /\ Len(loginTasks') + Len(registerTasks') <= MaxLiveTasks
          /\ LoginItems(loginTasks') + RegisterItems(registerTasks') <= MaxLiveItems
    \/ \E k \in 1..Len(registerTasks) : RegisterBodyStart(k)
    \/ \E k \in 1..Len(registerTasks) : RegisterWorker(k)
    \/ \E k \in 1..Len(registerTasks) : RegisterBodyResume(k)
    \/ \E k \in 1..Len(registerTasks) : RegisterFinalize(k)
    \/ StartPolling("enabled", FALSE, 1, 0, "none")
    \/ StopPolling

\* a step of a task: its body starts, resumes or ends, or its worker call
\* returns or raises
TaskStep ==
    \/ \E k \in 1..Len(loginTasks) :
          LoginBodyStart(k) \/ LoginWorker(k) \/ LoginBodyResume(k)
    \/ \E k \in 1..Len(registerTasks) :
          \/ RegisterBodyStart(k)
          \/ RegisterWorker(k)
          \/ RegisterBodyResume(k)
          \/ RegisterFinalize(k)

\* the event loop runs a task body that is ready, and every per-item worker
\* call returns or raises: while a task can take a step, some task takes one
TaskFairness == WF_vars(TaskStep)

SpecLive == InitLive /\ [][NextLive]_vars /\ TaskFairness

\* the class BrowserFailureTracker before its first construction, and threads
\* that construct it
InitSingleton ==
    /\ IdleKeys
    /\ InitTracker
    /\ IdleTasks
    /\ IdleApi
    /\ IdlePolling
    /\ IdleFmt
    /\ IdleMore
    /\ _instance = NoInstance
    /\ ConstructorsIdle

NextSingleton ==
    \/ \E t \in Constructors : NewCall(t)
    \/ \E t \in Constructors : NewOuterCheck(t)
    \/ \E t \in Constructors : NewAcquire(t)
    \/ \E t \in Constructors : NewInnerCheck(t)
    \/ \E t \in Constructors : NewCreate(t)
    \/ \E t \in Constructors : NewSetCount(t)
    \/ \E t \in Constructors : NewSetMax(t)
    \/ \E t \in Constructors : NewSetLock(t)
    \/ \E t \in Constructors : NewRelease(t)
    \/ \E t \in Constructors : NewReturn(t)

SpecSingleton == InitSingleton /\ [][NextSingleton]_vars

\* one call of create_error_response on every argument triple of the model
InitFmt ==
    /\ IdleKeys
    /\ InitTracker
    /\ IdleTasks
    /\ IdleApi
    /\ IdlePolling
    /\ IdleCtor
    /\ IdleMore
    /\ errorArgs \in [status_code : StatusCodes, message : ErrorMessages,
                       details : DetailsArgs, call : {TRUE}]
    /\ errorResp = NoErrorResp

NextFmt == CreateErrorResponse

SpecFmt == InitFmt /\ [][NextFmt]_vars

\* the call met a browser launch/connection failure: an exception whose
\* message carries one of the two texts
BrowserFailureCase ==
    autoScript.how = "raise" /\ autoScript.text \in LaunchErrors

\* the call has ended, with a return or with a raise
AutoEnded == autoPc \in {"returned", "raised"}

\* the calls that meet no exception return what the flow returned
FlowResultReturned ==
    autoScript.how # "raise"
        => /\ autoPc = "returned"
           /\ autoResult = IF autoScript.how = "config" THEN AutoConfig
                           ELSE AutoFailure(autoScript.text)

\* exactly one report for a browser failure, none otherwise
ReportsOncePerBrowserFailure ==
    autoReports = IF BrowserFailureCase THEN 1 ELSE 0

\* C40: login_and_extract reports to the global failure counter exactly once
\* per call that meets a browser launch/connection failure and never when the
\* call succeeds or fails for another reason, and every ordinary exception is
\* returned as {success: false, error} rather than raised.
C40_ReportsOnceAndReturns ==
    AutoEnded
        => /\ ReportsOncePerBrowserFailure
           /\ FlowResultReturned
           /\ autoScript.how = "raise"
                 => /\ autoPc = "returned"
                    /\ autoResult = AutoFailure(autoScript.text)

\* C40 as the code has it: the same, except that the browser failure whose
\* report takes the counter past _max_failures ends the call with SystemExit
\* instead of a returned failure.
C40_ReportsOnceAndReturnsUnlessTripped ==
    AutoEnded
        => /\ ReportsOncePerBrowserFailure
           /\ FlowResultReturned
           /\ autoScript.how = "raise"
                 => IF BrowserFailureCase /\ ExceedsMax(_failure_count)
                    THEN /\ autoPc = "raised"
                         /\ autoResult.signal = "SystemExit"
                    ELSE /\ autoPc = "returned"
                         /\ autoResult = AutoFailure(autoScript.text)

C40_Witness ==
    /\ autoPc = "raised"
    /\ BrowserFailureCase
    /\ autoReports = 1
    /\ _failure_count = _max_failures + 1

\* one worker calling login_and_extract again and again, from any count of the
\* failure tracker below its ceiling
InitAutomation ==
    /\ IdleKeys
    /\ _failure_count \in 0.._max_failures
    /\ ThreadsIdle
    /\ IdleTasks
    /\ IdleApi
    /\ IdleExt

NextAutomation ==
    \/ \E script \in AutoScripts : AutoCall(script)
    \/ AutoCreatePage
    \/ AutoRunFlow
    \/ AutoExcept
    \/ AutoFinally

SpecAutomation == InitAutomation /\ [][NextAutomation]_vars

\* the sum of len(text) // 4 + 1 over the non-empty text fragments of frags
\* emitted with the given thought flag
RECURSIVE SumOfEstimates(_, _)
SumOfEstimates(frags, thought) ==
    IF frags = <<>> THEN 0
    ELSE (IF Head(frags).text # "" /\ Head(frags).thought = thought
          THEN Len(Head(frags).text) \div 4 + 1 ELSE 0)
         + SumOfEstimates(Tail(frags), thought)

\* the count a usageMetadata reports under key, 0 when the key is absent
Reported(usage, key) == IF key \in DOMAIN usage THEN usage[key] ELSE 0

\* C31: after any sequence of create_stream_chunk calls on one converter the
\* thoughts count is the sum of len(text) // 4 + 1 over the non-empty text
\* fragments emitted as thoughts, the candidates count the same sum over the
\* others, every chunk's totalTokenCount is prompt + candidates + thoughts as
\* of that chunk, and the reported counts never decrease between chunks.
C31_TokenCountsAccumulate ==
    /\ thoughts_token_count = SumOfEstimates(emitted, TRUE)
    /\ candidates_token_count = SumOfEstimates(emitted, FALSE)
    /\ \A i \in 1..Len(usages) :
          usages[i].totalTokenCount
              = usages[i].promptTokenCount
                + Reported(usages[i], "candidatesTokenCount")
                + Reported(usages[i], "thoughtsTokenCount")
    /\ usages # <<>>
          => /\ chunk.usageMetadata = usages[Len(usages)]
             /\ chunk.usageMetadata.promptTokenCount = prompt_token_count
             /\ Reported(chunk.usageMetadata, "candidatesTokenCount")
                    = candidates_token_count
             /\ Reported(chunk.usageMetadata, "thoughtsTokenCount")
                    = thoughts_token_count
    /\ \A i \in 1..(Len(usages) - 1) :
          \A key \in {"promptTokenCount", "candidatesTokenCount",
                       "thoughtsTokenCount", "totalTokenCount"} :
              Reported(usages[i], key) <= Reported(usages[i + 1], key)

C31_Witness ==
    /\ Len(usages) = MaxChunks
    /\ prompt_token_count > 0
    /\ thoughts_token_count = 3
    /\ candidates_token_count = 2
    /\ \E i \in 1..Len(emitted) : emitted[i].text = ""
    /\ usages[1].totalTokenCount < usages[2].totalTokenCount
    /\ usages[2].totalTokenCount = usages[3].totalTokenCount

\* the stores the writers start from: the account to refresh (valid until
\* hour 4, perhaps disabled) and an account that expired at hour 0, in either
\* order, one of them, or none
WriterStores ==
    LET valid(d) == Account(RefreshedId, d, ExpiresAt(4), "duckmail", "", "", "pw")
        expired == Account("expired@mail", FALSE, ExpiresAt(0), "duckmail", "", "", "pw")
    IN { <<>>, <<expired>>, <<expired, valid(FALSE)>> }
       \cup { <<valid(d)>> : d \in BOOLEAN }
       \cup { <<valid(d), expired>> : d \in BOOLEAN }

\* one refresh item, one register item and one check_and_refresh that overlap
InitStore ==
    /\ IdleKeys
    /\ InitTracker
    /\ IdleTasks
    /\ IdleApi
    /\ IdleCtor
    /\ IdleFmt
    /\ IdleMore
    /\ _is_polling = FALSE
    /\ pollPc = "idle"
    /\ healPc = "none"
    /\ healCancel = FALSE
    /\ healSeen = NoCheck
    /\ healRound = 0
    /\ stopped = FALSE
    /\ refreshSeen = NoRefresh
    /\ store \in WriterStores

NextStore ==
    \/ RefreshLoad
    \/ \E script \in AutomationScripts : RefreshWrite(script)
    \/ \E script \in AutomationScripts : RegisterLoad(script)
    \/ RegisterWrite
    \/ DeleteLoad
    \/ DeleteWrite

SpecStore == InitStore /\ [][NextStore]_vars

\* every writer has returned
WritersEnded == \A w \in StoreWriters : writerPc[w] \in {"written", "failed"}

\* the ids of the accounts in the store
StoredIds == {store[i].id : i \in 1..Len(store)}

\* the ids check_and_refresh deleted
DeletedIds ==
    {writerAccounts["delete"][i].id : i \in
        {j \in 1..Len(writerAccounts["delete"]) :
            MarkedForDeletion(writerAccounts["delete"][j], CheckHour)}}

\* C33: no committed account-store change is lost to a concurrent writer:
\* when a refresh item, a register item and check_and_refresh's deletion have
\* all completed, the store holds the refreshed account's new session config,
\* the newly registered account, and none of the deleted accounts.
C33_NoCommittedChangeLost ==
    WritersEnded
        => /\ writerPc["refresh"] = "written"
                 => \E i \in 1..Len(store) :
                       /\ store[i].id = RefreshedId
                       /\ store[i].expires_at = ExpiresAt(NewExpiry)
           /\ writerPc["register"] = "written" => RegisteredId \in StoredIds
           /\ writerPc["delete"] = "written" => StoredIds \cap DeletedIds = {}

\* start_polling and stop_polling called at any time
InitLoops ==
    /\ IdleKeys
    /\ InitTracker
    /\ IdleTasks
    /\ IdleApi
    /\ IdleExt

NextLoops ==
    \/ \E cfg \in {"enabled", "disabled"} : StartPollingCall(cfg)
    \/ \E i \in 1..Len(pollCalls), cfg \in {"enabled", "disabled"} : LoopWake(i, cfg)
    \/ \E i \in 1..Len(pollCalls) : LoopResume(i)
    \/ \E i \in 1..Len(pollCalls) : MonitorStart(i)
    \/ \E i \in 1..Len(pollCalls) : MonitorWake(i)
    \/ StopPolling

SpecLoops == InitLoops /\ [][NextLoops]_vars

\* the polling loops that run their next round when they wake: in the while
\* loop, with the flag they test set
ActiveLoops ==
    {i \in 1..Len(pollCalls) : pollCalls[i].pc = "sleeping" /\ _is_polling}

\* the monitors that run their next check when they wake
ActiveMonitors ==
    {i \in 1..Len(pollCalls) :
        /\ pollCalls[i].heal \in {"scheduled", "sleeping"}
        /\ ~pollCalls[i].cancel
        /\ _is_polling}

\* a call made while polling is on starts no loop and no monitor
ActiveStartStartsNothing ==
    (_is_polling /\ Len(pollCalls') > Len(pollCalls))
        => /\ pollCalls'[Len(pollCalls')].pc \in {"rejected", "disabled"}
           /\ pollCalls'[Len(pollCalls')].heal = "none"

\* C39: under every interleaving of start_polling and stop_polling calls
\* (a stop_polling followed by a new start_polling while the previous loop is
\* asleep included) at most one polling loop and at most one health monitor
\* loop are active at any time, and a start_polling call made while polling is
\* active starts neither.
C39_AtMostOneLoopAndMonitor ==
    /\ [](Cardinality(ActiveLoops) <= 1 /\ Cardinality(ActiveMonitors) <= 1)
    /\ [][ActiveStartStartsNothing]_vars

\* the second half of C39 alone
C39_ActiveStartStartsNothing == [][ActiveStartStartsNothing]_vars

\* one account: requests select it, their calls fail or succeed, time passes
InitCooldown ==
    /\ IdleKeys
    /\ InitTracker
    /\ IdleTasks
    /\ IdleApi
    /\ IdleExt

NextCooldown ==
    \/ Tick
    \/ Select
    \/ CallFails
    \/ CallSucceeds

SpecCooldown == InitCooldown /\ [][NextCooldown]_vars

\* a call failed in this step
Failed == inUse /\ consecutive_failures' = consecutive_failures + 1

\* a call succeeded in this step
Succeeded == inUse /\ ~inUse' /\ ~Failed

InitChunks ==
    /\ IdleKeys
    /\ InitTracker
    /\ IdleTasks
    /\ IdleApi
    /\ IdleExt

NextChunks ==
    \/ \E count \in PromptCounts : SetPromptTokens(count)
    \/ \E text \in ChunkTexts, is_thought \in BOOLEAN, inline_data \in InlineDatas,
          finish_reason \in FinishReasons, thought_signature \in ThoughtSignatures :
          CreateStreamChunk(text, is_thought, inline_data, finish_reason,
                            thought_signature)

SpecChunks == InitChunks /\ [][NextChunks]_vars

====
